---- MODULE Spec2Model ----
(***************************************************************************)
(* Data Workspaces: the restore reconciliation of                          *)
(* dataworkspaces/commands/restore.py and its command line entry point in  *)
(* dataworkspaces/dws.py.                                                  *)
(*                                                                         *)
(* A behaviour is one workspace in which the user edits resources and then *)
(* runs one `dws restore`.  The command computes the three name lists,     *)
(* builds the plan (every action's constructor runs its precheck) and then *)
(* runs the plan one action at a time; a run() may raise, which ends the   *)
(* command without rollback.                                               *)
(*                                                                         *)
(* Strings given to --only/--leave are sequences of one-character strings; *)
(* a resource name is such a sequence of length one.                       *)
(***************************************************************************)
EXTENDS Integers, Sequences, FiniteSets, TLC

\* ---------------------------------------------------------------- bounds
\* most names listed in one --only / --leave value
MaxOptNames == 2
\* resource content states are numbered 1..MaxHash
MaxHash == 2
\* most commits a repository and its origin hold together
MaxCommits == 3

\* ------------------------------------------------------------- vocabulary
NameChars == <<"A", "B", "C">>
Comma == ","
Chars == {NameChars[i] : i \in 1..Len(NameChars)} \cup {Comma}
Names == {<<NameChars[i]>> : i \in 1..Len(NameChars)}
NameIdx(n) == CHOOSE i \in 1..Len(NameChars) : NameChars[i] = n[1]
\* an option that was not given on the command line (Python None)
None == <<"None">>
\* history entries written by a restore carry no tag
NoTag == "None"
NoHash == 0
Hashes == 1..MaxHash
\* the resource kinds that behave differently under restore_prechecks
KindOf(n) == IF n = <<"C">> THEN "git-subdirectory-results" ELSE "git"


\* ------------------------------------------------------------- record shapes
\* an action of a plan: its class, the resource it works on, the hash it
\* restores and where its resource object came from
Actions == [kind : STRING, name : Names \cup {<<>>}, hashval : Nat,
            obj : {"current", "snapshot", "none"}]
\* one line of a snapshot manifest
ManifestEntries == [name : Names, hash : Hashes]
\* one entry of snapshot_history.json
HistoryEntries == [hash : Nat, tag : STRING]
\* the command line of dws restore; tag_or_hash is hash_arg when it has the
\* form of a hash and tag_arg otherwise
CommandLines == [only : Seq(STRING), leave : Seq(STRING), no_new_snapshot : BOOLEAN,
                 is_hash : BOOLEAN, hash_arg : Nat, tag_arg : STRING]
\* what process_names returns
NameLists == [usage_error : BOOLEAN, to_restore : Seq(Names), to_add : Seq(Names),
              to_leave : Seq(Names)]
\* a constructor call: the action and whether its precheck passed
Constructions == [act : Actions, ok : BOOLEAN]
\* a commit of the workspace repository
Commits == [desc : STRING, of : Nat, new : Nat]
\* the outcome of one operation on a resource: what was called, "ok" or the
\* exception it raised, and the (comparison, restore) hashes a snapshot returned
OpResults == [op : STRING, result : STRING, cmp : Nat, rst : Nat]
\* the answer of one call to the workspace backend: what was called, "ok" or
\* the exception it raised, the arguments, and what it returned: metadata
\* records (one for a lookup), manifest bytes or a snapshot number
Replies == [op : STRING, result : STRING, hash_val : Seq(STRING), tag_val : Seq(STRING),
            reverse : BOOLEAN, max_count : SUBSET Nat, returned : Seq([hashval : Seq(STRING)]),
            data : Nat, number : Nat]

\* one entry of resources.json as dws add writes it
ResourceParams == [name : Seq(STRING), url : STRING]
\* one dws add: how it ended ("ok" or the exception), the name it settled on,
\* the resource's url, the mode, and how many run() calls have completed
AddOutcomes == [name : Seq(STRING), result : STRING, url : STRING, batch : BOOLEAN, ran : Nat]

\* a git resource object: two of its parameters, whether its repository uses
\* git-fat, the two attributes the prechecks set ("undefined" until then), the
\* precheck that has returned on it, and the `git push` and git-fat calls made
ResourceObject == [read_only : BOOLEAN, git_fat_repo : BOOLEAN, uses_git_fat : STRING,
                   python2_exe : STRING, prechecked : STRING, pushed : BOOLEAN,
                   fat_calls : Nat]
\* an action of a plan: its class and the resource object it holds
BuiltAction == [kind : STRING, r : Nat]
\* what a method call leaves: the object and the exception raised, or "none"
MethodResults == [obj : ResourceObject, raised : STRING]

\* a call of move_current_files_local_fs: two of its arguments and the list of
\* (source, destination) pairs it returned
MoveCalls == [rel_dest_root : Seq(STRING), exclude_files : SUBSET Seq(STRING),
              moved_files : Seq(Seq(Seq(STRING)))]
\* a process with the workspace loaded: its resource_params, where its
\* _save_json_to_file stands, and whether another process opened or closed the
\* file while this one had it open
Writers == [resource_params : Seq(Seq(STRING)), stage : STRING, interfered : BOOLEAN]
\* the process that closed the file last, and whether its save ran undisturbed
LastWrites == [by : Nat, clean : BOOLEAN]

VARIABLES
    resources_json,     \* names registered in .dataworkspace/resources.json
    content,            \* per resource: the hash of its present content, 0 = not materialised
    snapshot_files,     \* snapshots/snapshot-<hash>.json: hash -> manifest
    snapshot_history,   \* snapshots/snapshot_history.json
    git_staged,         \* metadata files staged in the workspace repository
    git_log,            \* commit messages of the workspace repository
    pc,                 \* "idle" | "running" | "done" | "failed"
    error,              \* the exception that ended the command, or "none"
    args,               \* the command line of the restore
    snapshot,           \* the history entry restore_command found
    original_current_resource_names,
    sr_resources,       \* snapshot_resources.resources: names in manifest order
    sr_hashval,         \* snapshot_resources.url_to_hashval
    names_to_restore, names_to_add, names_to_leave,
    need_to_write_resources_file,
    create_new_hash,
    map_of_hashes,      \* filled by TakeResourceSnapshot.run
    plan,               \* the list of actions
    plan_pos,           \* number of actions whose run() has completed
    write_revised,      \* write_revised.snapshot_hash, NoHash until it has run
    \* one resource object and what it manages
    resource_class,     \* its class: "git" | "git-subdirectory" |
                        \*   "git-subdirectory-results" | "s3"
    role,
    read_only,
    tree,               \* the files in the working tree, subdirectory or bucket
    cur_branch,         \* the branch the repository is on
    commits,            \* every commit there is, by hash: its tree
    known,              \* the commits the local repository holds
    head,               \* per branch: the hash of its last commit
    origin_head,        \* master at the remote origin
    current_snapshot,   \* S3Resource.current_snapshot, NoHash for None
    current_snapshot_file, \* scratch/s3/<name>/current_snapshot.txt, NoHash when absent
    snapshot_fs,        \* the snapshot S3Resource.snapshot_fs holds, NoHash for None
    s3_snapshots,       \* the snapshot files of the bucket and the local cache
    last,               \* the operation called last and its outcome
    taken,              \* the (comparison, restore) pairs snapshot() has returned
    restored,           \* the hash of the restore() that ran last, NoHash after a change
    \* the snapshot metadata the workspace backend keeps
    md_files,           \* snapshot_metadata/<hash>_md.json: file hash -> SnapshotMetadata
    manifest_files,     \* snapshots/snapshot-<hash>.json: file hash -> manifest bytes
    reply,              \* the backend call made last, its arguments and its outcome
    copy_md_names,      \* the metadata files of a second copy of the workspace
    numbers,            \* per copy: the snapshot number it obtained, 0 before
    \* a workspace to which resources are added, one command after the other
    resources_file,     \* the entries of resources.json, in file order
    added,              \* the dws add that ran last and how it ended
    \* the resource objects of one command and the actions built on them
    objects,            \* per resource object: its parameters and attributes
    built,              \* the actions constructed so far, in plan order
    actions_run,        \* number of actions whose run() has returned
    outcome,            \* "building" | "running" | "done" | the exception raised
    \* the directory of a results resource
    results_files,      \* relative path of each file -> the number of moves made
                        \*   when the file was created
    move_calls,         \* number of calls of move_current_files_local_fs so far
    move_reply,         \* the arguments of the last call and the list it returned
    \* two processes that have loaded the workspace and its resources.json
    json_file,          \* the characters resources.json holds
    writers,            \* per process: its resource_params and where its save stands
    last_write          \* the process that closed the file last

disk == <<resources_json, content, snapshot_files, snapshot_history, git_staged, git_log>>
cmd == <<pc, error, args, snapshot, original_current_resource_names, sr_resources,
         sr_hashval, names_to_restore, names_to_add, names_to_leave,
         need_to_write_resources_file, create_new_hash, map_of_hashes, plan,
         plan_pos, write_revised>>
res == <<resource_class, role, read_only, tree, cur_branch, commits, known, head, origin_head,
         current_snapshot, current_snapshot_file, snapshot_fs, s3_snapshots, last,
         taken, restored>>
identity == <<resource_class, role, read_only>>
git_state == <<tree, cur_branch, commits, known, head, origin_head>>
s3_state == <<current_snapshot, current_snapshot_file, snapshot_fs, s3_snapshots>>
adds == <<resources_file, added>>
attrs == <<objects, built, actions_run, outcome>>
moves == <<results_files, move_calls, move_reply>>
writes == <<json_file, writers, last_write>>
more == <<adds, attrs, moves, writes>>
store == <<md_files, manifest_files, reply, copy_md_names, numbers, more>>
vars == <<disk, cmd, res, store>>

\* ------------------------------------------------------------- helpers
Range(s) == {s[i] : i \in 1..Len(s)}

\* sorted(names): resource names in lexical order
RECURSIVE sorted(_)
sorted(S) ==
    IF S = {} THEN <<>>
    ELSE LET m == CHOOSE x \in S : \A y \in S : NameIdx(x) <= NameIdx(y)
         IN <<m>> \o sorted(S \ {m})

\* str.split(','): the pieces between the commas, empty pieces included
RECURSIVE split(_)
split(s) ==
    IF \A i \in 1..Len(s) : s[i] # Comma THEN <<s>>
    ELSE LET i == CHOOSE k \in 1..Len(s) :
                      s[k] = Comma /\ \A j \in 1..(k-1) : s[j] # Comma
         IN <<SubSeq(s, 1, i-1)>> \o split(SubSeq(s, i+1, Len(s)))

\* ','.join(pieces)
RECURSIVE join(_)
join(pieces) ==
    IF Len(pieces) = 1 THEN pieces[1]
    ELSE pieces[1] \o <<Comma>> \o join(Tail(pieces))

\* the --only / --leave values that are tried: up to MaxOptNames pieces, each a
\* resource name or empty
OptStrings == {join(l) : l \in UNION {[1..k -> Names \cup {<<>>}] : k \in 1..MaxOptNames}}

\* the manifest written for a list of resources and their hashes
Manifest(names, hashval) == [i \in 1..Len(names) |-> [name |-> names[i], hash |-> hashval[names[i]]]]

\* the digest of a manifest's bytes: a positional numeral over its entries
RECURSIVE Digest(_)
Digest(m) ==
    IF m = <<>> THEN 1
    ELSE LET e == m[Len(m)]
         IN Digest(SubSeq(m, 1, Len(m)-1)) * (Len(NameChars) * MaxHash + 1)
              + (NameIdx(e.name) - 1) * MaxHash + e.hash

ManifestNames(m) == {m[i].name : i \in 1..Len(m)}

\* ------------------------------------------------- restore.py: process_names
\* a validation that lets every piece through
IsKnownName_unchecked(piece, all_names) == TRUE

\* what `name in all_names` finds for one piece of the option string
IsKnownName(piece, all_names) == piece \in all_names

\* the --only block without the move into names_to_leave
only_block_forgets(all_names, to_restore, to_leave, only) ==
    LET only_names == Range(split(only))
        dropped == (all_names \ only_names) \cap to_restore
    IN [usage_error |-> \E p \in only_names : ~IsKnownName(p, all_names),
        to_restore |-> to_restore \ dropped,
        to_leave |-> to_leave]

\* the --only block moving the listed names instead of the others
only_block_inverted(all_names, to_restore, to_leave, only) ==
    LET only_names == Range(split(only))
        dropped == only_names \cap to_restore
    IN [usage_error |-> \E p \in only_names : ~IsKnownName(p, all_names),
        to_restore |-> to_restore \ dropped,
        to_leave |-> to_leave \cup dropped]

\* the --only block (restore.py 101-111): every piece must be a known name;
\* each name of all_names that is not listed moves from names_to_restore to
\* names_to_leave
only_block(all_names, to_restore, to_leave, only) ==
    LET only_names == Range(split(only))
        dropped == (all_names \ only_names) \cap to_restore
    IN [usage_error |-> \E p \in only_names : ~IsKnownName(p, all_names),
        to_restore |-> to_restore \ dropped,
        to_leave |-> to_leave \cup dropped]

\* the --leave block adding every listed name to names_to_leave
leave_block_moves_all(all_names, to_restore, to_leave, leave) ==
    LET leave_names == Range(split(leave))
    IN [usage_error |-> \E p \in leave_names : ~IsKnownName(p, all_names),
        to_restore |-> to_restore \ leave_names,
        to_leave |-> to_leave \cup (leave_names \cap all_names)]

\* the --leave block (restore.py 113-121): every piece must be a known name;
\* each listed name that is in names_to_restore moves to names_to_leave
leave_block(all_names, to_restore, to_leave, leave) ==
    LET leave_names == Range(split(leave))
        moved == leave_names \cap to_restore
    IN [usage_error |-> \E p \in leave_names : ~IsKnownName(p, all_names),
        to_restore |-> to_restore \ moved,
        to_leave |-> to_leave \cup moved]

\* process_names with --only and --leave applied to names_to_add as well
process_names_options_filter_add(current_names, snapshot_names, only, leave) ==
    LET all_names == snapshot_names \cup current_names
        names_to_restore0 == snapshot_names \cap current_names
        names_to_add0 == snapshot_names \ current_names
        names_to_leave0 == current_names \ snapshot_names
        unchanged == [usage_error |-> FALSE, to_restore |-> names_to_restore0,
                      to_leave |-> names_to_leave0]
        after_only == IF only # None
                        THEN only_block(all_names, names_to_restore0, names_to_leave0, only)
                        ELSE unchanged
        after_leave == IF leave # None /\ ~after_only.usage_error
                         THEN leave_block(all_names, after_only.to_restore, after_only.to_leave, leave)
                         ELSE after_only
        kept == {n \in names_to_add0 :
                    /\ only # None => n \in Range(split(only))
                    /\ leave # None => n \notin Range(split(leave))}
    IN  [usage_error |-> after_leave.usage_error,
         to_restore |-> sorted(after_leave.to_restore),
         to_add |-> sorted(kept),
         to_leave |-> sorted(after_leave.to_leave)]

\* process_names(current_names, snapshot_names, only, leave):
\* usage_error is TRUE when click.UsageError is raised, otherwise the three
\* sorted lists are returned
process_names(current_names, snapshot_names, only, leave) ==
    LET all_names == snapshot_names \cup current_names
        names_to_restore0 == snapshot_names \cap current_names
        names_to_add0 == snapshot_names \ current_names
        names_to_leave0 == current_names \ snapshot_names
        unchanged == [usage_error |-> FALSE, to_restore |-> names_to_restore0,
                      to_leave |-> names_to_leave0]
        after_only == IF only # None
                        THEN only_block(all_names, names_to_restore0, names_to_leave0, only)
                        ELSE unchanged
        after_leave == IF leave # None /\ ~after_only.usage_error
                         THEN leave_block(all_names, after_only.to_restore, after_only.to_leave, leave)
                         ELSE after_only
    IN  [usage_error |-> after_leave.usage_error,
         to_restore |-> sorted(after_leave.to_restore),
         to_add |-> sorted(names_to_add0),
         to_leave |-> sorted(after_leave.to_leave)]

\* ------------------------------------------------- the resource contract
UrlOf(n) == n

\* restore_prechecks that looks at the hash only, whatever the resource class
restore_prechecks_any_kind(n, hashval) == hashval \in Hashes

\* restore_prechecks(hashval): TRUE when it returns, FALSE when it raises
\* ConfigurationError
restore_prechecks(n, hashval) ==
    IF KindOf(n) = "git-subdirectory-results" THEN FALSE
    ELSE hashval \in Hashes

\* resource.snapshot(): the hash of the resource's present content
resource_snapshot(n) == content[n]

\* ------------------------------------------------- restore.py: the actions
Action(kind, name, hashval, obj) == [kind |-> kind, name |-> name, hashval |-> hashval, obj |-> obj]
NoName == <<>>

\* RestoreResource.__init__: the action and whether its precheck passed
RestoreResource(n, obj, url_to_hashval) ==
    [act |-> Action("RestoreResource", n, url_to_hashval[UrlOf(n)], obj),
     ok |-> restore_prechecks(n, url_to_hashval[UrlOf(n)])]

\* AddResourceToSnapshot.__init__
AddResourceToSnapshot(n, snapshot_urls) ==
    [act |-> Action("AddResourceToSnapshot", n, NoHash, "current"),
     ok |-> UrlOf(n) \notin snapshot_urls]

\* TakeResourceSnapshot.__init__
TakeResourceSnapshot(n) ==
    [act |-> Action("TakeResourceSnapshot", n, NoHash, "current"), ok |-> TRUE]

Plain(kind) == [act |-> Action(kind, NoName, NoHash, "none"), ok |-> TRUE]

\* the names_to_leave loop taking a snapshot of the added resources only
LeaveActions_snapshot_added_only(n, snapshot_names, no_new_snapshot) ==
    IF n \notin snapshot_names
      THEN <<AddResourceToSnapshot(n, {UrlOf(x) : x \in snapshot_names})>>
             \o (IF ~no_new_snapshot THEN <<TakeResourceSnapshot(n)>> ELSE <<>>)
      ELSE <<>>

\* the actions of one names_to_leave entry (restore.py 163-173)
LeaveActions(n, snapshot_names, no_new_snapshot) ==
    (IF n \notin snapshot_names
       THEN <<AddResourceToSnapshot(n, {UrlOf(x) : x \in snapshot_names})>> ELSE <<>>)
    \o (IF ~no_new_snapshot THEN <<TakeResourceSnapshot(n)>> ELSE <<>>)

RECURSIVE LeaveLoop(_, _, _)
LeaveLoop(names, snapshot_names, no_new_snapshot) ==
    IF names = <<>> THEN <<>>
    ELSE LeaveActions(Head(names), snapshot_names, no_new_snapshot)
           \o LeaveLoop(Tail(names), snapshot_names, no_new_snapshot)

\* create_new_hash never set
CreateNewHash_never(leave_list, no_new_snapshot) == FALSE

\* create_new_hash as restore_command sets it in the names_to_leave loop
CreateNewHash(leave_list, no_new_snapshot) == leave_list # <<>> /\ ~no_new_snapshot

\* need_to_write_resources_file (restore.py 174-175)
NeedToWrite(current_names, snapshot_names) == current_names # snapshot_names

\* the tail of the plan with the history append ahead of the manifest write
PlanTail_history_first(new_hash, need_write) ==
    (IF new_hash
       THEN <<Plain("AppendSnapshotHistory"), Plain("WriteRevisedSnapshotFile")>>
              \o (IF need_write
                    THEN <<Plain("WriteRevisedResourceFile"), Plain("GitAddDeferred")>>
                    ELSE <<Plain("GitAddDeferred")>>)
       ELSE IF need_write THEN <<Plain("GitAdd")>> ELSE <<>>)
    \o (IF need_write \/ new_hash THEN <<Plain("GitCommit")>> ELSE <<>>)

\* the tail of the plan with a second history entry for the one new snapshot
PlanTail_history_twice(new_hash, need_write) ==
    (IF new_hash
       THEN <<Plain("WriteRevisedSnapshotFile"), Plain("AppendSnapshotHistory"),
              Plain("AppendSnapshotHistory")>>
              \o (IF need_write
                    THEN <<Plain("WriteRevisedResourceFile"), Plain("GitAddDeferred")>>
                    ELSE <<Plain("GitAddDeferred")>>)
       ELSE IF need_write THEN <<Plain("GitAdd")>> ELSE <<>>)
    \o (IF need_write \/ new_hash THEN <<Plain("GitCommit")>> ELSE <<>>)

\* the tail of the plan with the commit ahead of the writes it should record
PlanTail_commit_first(new_hash, need_write) ==
    (IF need_write \/ new_hash THEN <<Plain("GitCommit")>> ELSE <<>>)
    \o (IF new_hash
          THEN <<Plain("WriteRevisedSnapshotFile"), Plain("AppendSnapshotHistory")>>
                 \o (IF need_write
                       THEN <<Plain("WriteRevisedResourceFile"), Plain("GitAddDeferred")>>
                       ELSE <<Plain("GitAddDeferred")>>)
          ELSE IF need_write THEN <<Plain("GitAdd")>> ELSE <<>>)

\* the tail of the plan (restore.py 176-213)
PlanTail(new_hash, need_write) ==
    (IF new_hash
       THEN <<Plain("WriteRevisedSnapshotFile"), Plain("AppendSnapshotHistory")>>
              \o (IF need_write
                    THEN <<Plain("WriteRevisedResourceFile"), Plain("GitAddDeferred")>>
                    ELSE <<Plain("GitAddDeferred")>>)
       ELSE IF need_write THEN <<Plain("GitAdd")>> ELSE <<>>)
    \o (IF need_write \/ new_hash THEN <<Plain("GitCommit")>> ELSE <<>>)

\* the two restore loops taking both kinds of resource from the snapshot
RestoreLoops_all_from_snapshot(to_restore, to_add, url_to_hashval) ==
    [i \in 1..Len(to_restore) |-> RestoreResource(to_restore[i], "snapshot", url_to_hashval)]
    \o [i \in 1..Len(to_add) |-> RestoreResource(to_add[i], "snapshot", url_to_hashval)]

\* the loops over names_to_restore and names_to_add (restore.py 154-162): the
\* first takes the resource object from current_resources, the second from
\* snapshot_resources
RestoreLoops(to_restore, to_add, url_to_hashval) ==
    [i \in 1..Len(to_restore) |-> RestoreResource(to_restore[i], "current", url_to_hashval)]
    \o [i \in 1..Len(to_add) |-> RestoreResource(to_add[i], "snapshot", url_to_hashval)]

\* every constructor call of restore_command in order (restore.py 151-213)
Constructed(pn, current_names, snapshot_names, url_to_hashval, no_new_snapshot) ==
    RestoreLoops(pn.to_restore, pn.to_add, url_to_hashval)
    \o LeaveLoop(pn.to_leave, snapshot_names, no_new_snapshot)
    \o PlanTail(CreateNewHash(pn.to_leave, no_new_snapshot),
                NeedToWrite(current_names, snapshot_names))

\* the plan as far as it got: the actions before the first failing constructor
PlanOf(cs) ==
    LET bad == {i \in 1..Len(cs) : ~cs[i].ok}
        n == IF bad = {} THEN Len(cs) ELSE (CHOOSE i \in bad : \A j \in bad : i <= j) - 1
    IN [i \in 1..n |-> cs[i].act]

PrechecksPass(cs) == \A i \in 1..Len(cs) : cs[i].ok

\* ------------------------------------------------- the workspace at the start
FirstTag == "v1"
Tags == {FirstTag, "v9"}
NoArgs == [only |-> None, leave |-> None, no_new_snapshot |-> FALSE,
           is_hash |-> FALSE, hash_arg |-> NoHash, tag_arg |-> NoTag]
NoSnapshot == [hash |-> NoHash, tag |-> NoTag]
NoHashes == [n \in {} |-> NoHash]

\* a workspace with the resources C registered and one snapshot, tagged v1, of
\* the resources S; every resource is in the state the snapshot recorded
InitWorkspace(C, S) ==
    LET m == Manifest(sorted(S), [n \in S |-> 1])
    IN /\ resources_json = C
       /\ content = [n \in Names |-> IF n \in C THEN 1 ELSE 0]
       /\ snapshot_files = (Digest(m) :> m)
       /\ snapshot_history = <<[hash |-> Digest(m), tag |-> FirstTag]>>
       /\ git_staged = {}
       /\ git_log = <<>>

InitCommand ==
    /\ pc = "idle"
    /\ error = "none"
    /\ args = NoArgs
    /\ snapshot = NoSnapshot
    /\ original_current_resource_names = {}
    /\ sr_resources = <<>>
    /\ sr_hashval = NoHashes
    /\ names_to_restore = <<>>
    /\ names_to_add = <<>>
    /\ names_to_leave = <<>>
    /\ need_to_write_resources_file = FALSE
    /\ create_new_hash = FALSE
    /\ map_of_hashes = NoHashes
    /\ plan = <<>>
    /\ plan_pos = 0
    /\ write_revised = NoHash

\* ResourceRoles
Roles == {"source-data", "intermediate-data", "code", "results"}
ConfBranch == "master"
Branches == {ConfBranch, "dev"}
NoOp == [op |-> "none", result |-> "ok", cmp |-> NoHash, rst |-> NoHash]
NoPair == [cmp |-> NoHash, rst |-> NoHash]

\* a resource object of class k in role r over a clean repository (or bucket)
\* with one commit, which the remote origin has too
InitResource(k, r, ro) ==
    /\ resource_class = k
    /\ role = r
    /\ read_only = ro
    /\ tree = 1
    /\ cur_branch = ConfBranch
    /\ commits = <<1>>
    /\ known = {1}
    /\ head = [b \in Branches |-> 1]
    /\ origin_head = 1
    /\ current_snapshot = NoHash
    /\ current_snapshot_file = NoHash
    /\ snapshot_fs = NoHash
    /\ s3_snapshots = {}
    /\ last = NoOp
    /\ taken = NoPair
    /\ restored = NoHash

\* no call to the backend yet
NoReply == [op |-> "none", result |-> "none", hash_val |-> <<>>, tag_val |-> <<>>,
            reverse |-> FALSE, max_count |-> {}, returned |-> <<>>, data |-> 0,
            number |-> 0]

NoMove == [rel_dest_root |-> <<>>, exclude_files |-> {}, moved_files |-> <<>>]
NoWrite == [by |-> 0, clean |-> TRUE]

NoAdd == [name |-> <<"None">>, result |-> "none", url |-> "", batch |-> FALSE, ran |-> 0]

\* no dws add has run: resources.json is the empty list dws init writes
NoAdds ==
    /\ resources_file = <<>>
    /\ added = NoAdd

\* no results directory is followed
NoMoves ==
    /\ results_files = <<>>
    /\ move_calls = 0
    /\ move_reply = NoMove

\* no process has loaded the workspace
NoWriters ==
    /\ json_file = <<>>
    /\ writers = <<>>
    /\ last_write = NoWrite

\* no command has made resource objects
NoObjects ==
    /\ objects = <<>>
    /\ built = <<>>
    /\ actions_run = 0
    /\ outcome = "building"

\* the parts of the workspace a behaviour does not follow stay as they are
AtRest == NoAdds /\ NoObjects /\ NoMoves /\ NoWriters

\* a workspace in which no snapshot was taken through the backend
NoSnapshots ==
    /\ md_files = <<>>
    /\ manifest_files = <<>>
    /\ reply = NoReply
    /\ copy_md_names = {}
    /\ numbers = <<0, 0>>

Init ==
    /\ \E C \in SUBSET Names, S \in SUBSET Names : InitWorkspace(C, S)
    /\ InitCommand
    /\ InitResource("git", "source-data", FALSE)
    /\ NoSnapshots
    /\ AtRest

\* ------------------------------------------------- the user edits a resource
ModifyResource(n, h) ==
    /\ pc = "idle"
    /\ n \in resources_json
    /\ h # content[n]
    /\ content' = [content EXCEPT ![n] = h]
    /\ UNCHANGED <<resources_json, snapshot_files, snapshot_history, git_staged, git_log>>
    /\ UNCHANGED cmd
    /\ UNCHANGED <<res, store>>

\* ------------------------------------------------- dws restore
\* SnapshotResources.read_shapshot_manifest: url_to_hashval of a manifest
UrlToHashval(manifest) ==
    [n \in ManifestNames(manifest) |->
        manifest[CHOOSE i \in 1..Len(manifest) : manifest[i].name = n].hash]

\* the command ends with an exception before run_plan; `manifest` is the
\* snapshot manifest when it has been read (else none was), `pn` the result of
\* process_names when it has returned
Raise(e, a, snap, manifest, pn, partial_plan) ==
    /\ pc' = "failed"
    /\ error' = e
    /\ args' = a
    /\ snapshot' = snap
    /\ original_current_resource_names' = IF snap # NoSnapshot THEN resources_json ELSE {}
    /\ sr_resources' = [i \in 1..Len(manifest) |-> manifest[i].name]
    /\ sr_hashval' = UrlToHashval(manifest)
    /\ names_to_restore' = pn.to_restore
    /\ names_to_add' = pn.to_add
    /\ names_to_leave' = pn.to_leave
    /\ plan' = partial_plan
    /\ UNCHANGED <<need_to_write_resources_file, create_new_hash, map_of_hashes,
                   plan_pos, write_revised>>
    /\ UNCHANGED disk
    /\ UNCHANGED <<res, store>>

NoNames == [usage_error |-> FALSE, to_restore |-> <<>>, to_add |-> <<>>, to_leave |-> <<>>]

\* a loop that stops at the first history entry whatever it holds
Matches_any_entry(a, entry) == TRUE

\* the history entries the loop of restore_command accepts (restore.py 130-138)
Matches(a, entry) ==
    IF a.is_hash THEN entry.hash = a.hash_arg ELSE entry.tag = a.tag_arg

\* restore_command from the plan's construction to the confirmation prompt
\* (restore.py 151-229); `confirm` is the user's answer
build_plan(a, confirm, snap, manifest, pn, hashval) ==
    \E cs \in {Constructed(pn, resources_json, ManifestNames(manifest), hashval,
                           a.no_new_snapshot)} :
       IF ~PrechecksPass(cs)
         THEN Raise("ConfigurationError", a, snap, manifest, pn, PlanOf(cs))
       ELSE IF ~confirm THEN Raise("UserAbort", a, snap, manifest, pn, PlanOf(cs))
       ELSE /\ pc' = IF cs = <<>> THEN "done" ELSE "running"
            /\ error' = "none"
            /\ args' = a
            /\ snapshot' = snap
            /\ original_current_resource_names' = resources_json
            /\ sr_resources' = [i \in 1..Len(manifest) |-> manifest[i].name]
            /\ sr_hashval' = hashval
            /\ names_to_restore' = pn.to_restore
            /\ names_to_add' = pn.to_add
            /\ names_to_leave' = pn.to_leave
            /\ need_to_write_resources_file' =
                   NeedToWrite(resources_json, ManifestNames(manifest))
            /\ create_new_hash' = CreateNewHash(pn.to_leave, a.no_new_snapshot)
            /\ map_of_hashes' = NoHashes
            /\ plan' = PlanOf(cs)
            /\ plan_pos' = 0
            /\ write_revised' = NoHash
            /\ UNCHANGED disk
            /\ UNCHANGED <<res, store>>

\* restore_command (restore.py 124-150): find the history entry, read the
\* snapshot's and the current resources, compute the three lists
restore_command(a, confirm) ==
    LET found == {i \in 1..Len(snapshot_history) : Matches(a, snapshot_history[i])}
    IN IF found = {} THEN Raise("ConfigurationError", a, NoSnapshot, <<>>, NoNames, <<>>)
       ELSE
       \E snap \in {snapshot_history[CHOOSE i \in found : \A j \in found : i <= j]} :
       \E manifest \in {snapshot_files[snap.hash]} :
       \E pn \in {process_names(resources_json, ManifestNames(manifest), a.only, a.leave)} :
          IF pn.usage_error THEN Raise("UsageError", a, snap, manifest, NoNames, <<>>)
          ELSE build_plan(a, confirm, snap, manifest, pn, UrlToHashval(manifest))

\* the entry point without its check of the two options
restore_unchecked(a, confirm) ==
    /\ pc = "idle"
    /\ restore_command(a, confirm)

\* dws.py restore(): rejects --only together with --leave, else restore_command
restore(a, confirm) ==
    /\ pc = "idle"
    /\ IF a.only # None /\ a.leave # None
         THEN Raise("BadOptionUsage", a, NoSnapshot, <<>>, NoNames, <<>>)
         ELSE restore_command(a, confirm)

CommandLine(o, l, nns, is_hash, h, t) ==
    [only |-> o, leave |-> l, no_new_snapshot |-> nns, is_hash |-> is_hash,
     hash_arg |-> h, tag_arg |-> t]

\* the command lines that are tried: a tag with --only or --leave or neither,
\* both options together, an unknown tag, and a hash
Restore ==
    \/ \E o \in OptStrings \cup {None}, nns \in BOOLEAN, confirm \in BOOLEAN :
          restore(CommandLine(o, None, nns, FALSE, NoHash, FirstTag), confirm)
    \/ \E l \in OptStrings, nns \in BOOLEAN, confirm \in BOOLEAN :
          restore(CommandLine(None, l, nns, FALSE, NoHash, FirstTag), confirm)
    \/ \E o \in Names, l \in Names :
          restore(CommandLine(o, l, FALSE, FALSE, NoHash, FirstTag), TRUE)
    \/ \E t \in Tags \ {FirstTag} :
          restore(CommandLine(None, None, FALSE, FALSE, NoHash, t), TRUE)
    \/ \E h \in {NoHash} \cup {snapshot_history[i].hash : i \in 1..Len(snapshot_history)} :
          restore(CommandLine(None, None, FALSE, TRUE, h, NoTag), TRUE)

\* ------------------------------------------------- actions.run_plan
NextAction == plan[plan_pos + 1]

\* run_plan moves on to the next action, or returns after the last one
Advance ==
    /\ plan_pos' = plan_pos + 1
    /\ pc' = IF plan_pos + 1 = Len(plan) THEN "done" ELSE "running"
    /\ UNCHANGED <<error, args, snapshot, original_current_resource_names, sr_hashval,
                   names_to_restore, names_to_add, names_to_leave,
                   need_to_write_resources_file, create_new_hash, plan>>
    /\ UNCHANGED <<res, store>>

Running(kind) == pc = "running" /\ NextAction.kind = kind

\* RestoreResource.run: resource.restore(hashval)
RestoreResource_run ==
    /\ Running("RestoreResource")
    /\ content' = [content EXCEPT ![NextAction.name] = NextAction.hashval]
    /\ Advance
    /\ UNCHANGED <<resources_json, snapshot_files, snapshot_history, git_staged, git_log,
                   sr_resources, map_of_hashes, write_revised>>

\* AddResourceToSnapshot.run: the resource joins the snapshot's resource list
AddResourceToSnapshot_run ==
    /\ Running("AddResourceToSnapshot")
    /\ sr_resources' = Append(sr_resources, NextAction.name)
    /\ Advance
    /\ UNCHANGED <<disk, map_of_hashes, write_revised>>

\* TakeResourceSnapshot.run: map_of_hashes[resource] = resource.snapshot()
TakeResourceSnapshot_run ==
    /\ Running("TakeResourceSnapshot")
    /\ map_of_hashes' = (NextAction.name :> resource_snapshot(NextAction.name)) @@ map_of_hashes
    /\ Advance
    /\ UNCHANGED <<disk, sr_resources, write_revised>>

\* write_revised_snapshot_manifest: the snapshot's resources, each with the
\* hash of map_of_hashes when it has one and the snapshot's hash otherwise
RevisedManifest(resources, hashval, fresh) ==
    Manifest(resources, [n \in Range(resources) |->
                            IF n \in DOMAIN fresh THEN fresh[n] ELSE hashval[n]])

\* write_and_hash_file: the file is stored under the digest of its bytes
write_and_hash_file(files, m) == (Digest(m) :> m) @@ files

\* the revised manifest written over the file of the snapshot being restored
WriteRevisedSnapshotFile_in_place ==
    /\ Running("WriteRevisedSnapshotFile")
    /\ LET m == RevisedManifest(sr_resources, sr_hashval, map_of_hashes)
       IN /\ snapshot_files' = (snapshot.hash :> m) @@ snapshot_files
          /\ write_revised' = snapshot.hash
    /\ Advance
    /\ UNCHANGED <<resources_json, content, snapshot_history, git_staged, git_log,
                   sr_resources, map_of_hashes>>

\* WriteRevisedSnapshotFile.run
WriteRevisedSnapshotFile_run ==
    /\ Running("WriteRevisedSnapshotFile")
    /\ LET m == RevisedManifest(sr_resources, sr_hashval, map_of_hashes)
       IN /\ snapshot_files' = write_and_hash_file(snapshot_files, m)
          /\ write_revised' = Digest(m)
    /\ Advance
    /\ UNCHANGED <<resources_json, content, snapshot_history, git_staged, git_log,
                   sr_resources, map_of_hashes>>

\* AppendSnapshotHistory.run with tag None and the hash write_revised holds
AppendSnapshotHistory_run ==
    /\ Running("AppendSnapshotHistory")
    /\ snapshot_history' = Append(snapshot_history, [hash |-> write_revised, tag |-> NoTag])
    /\ Advance
    /\ UNCHANGED <<resources_json, content, snapshot_files, git_staged, git_log,
                   sr_resources, map_of_hashes, write_revised>>

\* WriteRevisedResourceFile.run: resources.json lists the snapshot's resources
WriteRevisedResourceFile_run ==
    /\ Running("WriteRevisedResourceFile")
    /\ resources_json' = Range(sr_resources)
    /\ Advance
    /\ UNCHANGED <<content, snapshot_files, snapshot_history, git_staged, git_log,
                   sr_resources, map_of_hashes, write_revised>>

\* the files the deferred git add of restore_command names (restore.py 186-195)
DeferredFiles ==
    IF need_to_write_resources_file
      THEN {"snapshot_file", "snapshot_history", "resources"}
      ELSE {"snapshot_file", "snapshot_history"}

GitAddDeferred_run ==
    /\ Running("GitAddDeferred")
    /\ git_staged' = git_staged \cup DeferredFiles
    /\ Advance
    /\ UNCHANGED <<resources_json, content, snapshot_files, snapshot_history, git_log,
                   sr_resources, map_of_hashes, write_revised>>

\* GitAdd of the resources file (restore.py 196-199)
GitAdd_run ==
    /\ Running("GitAdd")
    /\ git_staged' = git_staged \cup {"resources"}
    /\ Advance
    /\ UNCHANGED <<resources_json, content, snapshot_files, snapshot_history, git_log,
                   sr_resources, map_of_hashes, write_revised>>

\* the commit message restore_command chooses (restore.py 201-208)
CommitMessage ==
    IF NextAction.name # NoName
      THEN [desc |-> "Added resource", of |-> NoHash, new |-> NoHash]
    ELSE IF create_new_hash
      THEN [desc |-> "Partial restore", of |-> snapshot.hash, new |-> write_revised]
      ELSE [desc |-> "Restore snapshot", of |-> snapshot.hash, new |-> NoHash]

GitCommit_run ==
    /\ Running("GitCommit")
    /\ git_log' = Append(git_log, CommitMessage)
    /\ git_staged' = {}
    /\ Advance
    /\ UNCHANGED <<resources_json, content, snapshot_files, snapshot_history,
                   sr_resources, map_of_hashes, write_revised>>

\* the run() of the next action raises: run_plan stops, nothing is undone
RunFails ==
    /\ pc = "running"
    /\ pc' = "failed"
    /\ error' = "RunError"
    /\ UNCHANGED disk
    /\ UNCHANGED <<args, snapshot, original_current_resource_names, sr_resources,
                   sr_hashval, names_to_restore, names_to_add, names_to_leave,
                   need_to_write_resources_file, create_new_hash, map_of_hashes, plan,
                   plan_pos, write_revised>>
    /\ UNCHANGED <<res, store>>

Next ==
    \/ \E n \in Names, h \in Hashes : ModifyResource(n, h)
    \/ Restore
    \/ RestoreResource_run
    \/ AddResourceToSnapshot_run
    \/ TakeResourceSnapshot_run
    \/ WriteRevisedSnapshotFile_run
    \/ AppendSnapshotHistory_run
    \/ WriteRevisedResourceFile_run
    \/ GitAddDeferred_run
    \/ GitAdd_run
    \/ GitCommit_run
    \/ RunFails

Spec == Init /\ [][Next]_vars


\* =================================================== dws add and dws pull
\* AddResource.__init__ (add.py 14-17): resource.add_prechecks(); `ok` says
\* whether they pass, h is the content the resource comes with
AddResource(n, h, ok) == [act |-> Action("AddResource", n, h, "none"), ok |-> ok]

\* AddResourceToFile.__init__ (add.py 27-34): the url must not be registered
AddResourceToFile(n, url, current_urls) ==
    [act |-> Action("AddResourceToFile", n, NoHash, "none"), ok |-> url \notin current_urls]

\* GitCommit with the message 'Added resource ...' (add.py 74-75)
GitCommitAdded(n) == [act |-> Action("GitCommit", n, NoHash, "none"), ok |-> TRUE]

\* a command's constructors have been called: the first failing precheck raises
\* out of the command, otherwise run_plan is entered with the whole plan
run_plan(cs) ==
    IF ~PrechecksPass(cs)
      THEN Raise("ConfigurationError", NoArgs, NoSnapshot, <<>>, NoNames, PlanOf(cs))
      ELSE /\ pc' = "running"
           /\ plan' = PlanOf(cs)
           /\ plan_pos' = 0
           /\ UNCHANGED <<error, args, snapshot, original_current_resource_names,
                          sr_resources, sr_hashval, names_to_restore, names_to_add,
                          names_to_leave, need_to_write_resources_file, create_new_hash,
                          map_of_hashes, write_revised>>
           /\ UNCHANGED disk
           /\ UNCHANGED <<res, store>>

\* an add_command whose AddResource adds the resource when it is constructed
add_command_adding_at_construction(n, url, h, add_ok) ==
    /\ pc = "idle"
    /\ IF n \in resources_json
         THEN Raise("ConfigurationError", NoArgs, NoSnapshot, <<>>, NoNames, <<>>)
         ELSE \E cs \in {<<AddResource(n, h, add_ok),
                          AddResourceToFile(n, url, {UrlOf(x) : x \in resources_json}),
                          Plain("GitAdd"), GitCommitAdded(n)>>} :
                 /\ pc' = IF PrechecksPass(cs) THEN "running" ELSE "failed"
                 /\ error' = IF PrechecksPass(cs) THEN error ELSE "ConfigurationError"
                 /\ plan' = PlanOf(cs)
                 /\ plan_pos' = 0
                 /\ content' = IF add_ok THEN [content EXCEPT ![n] = h] ELSE content
                 /\ UNCHANGED <<args, snapshot, original_current_resource_names,
                                sr_resources, sr_hashval, names_to_restore, names_to_add,
                                names_to_leave, need_to_write_resources_file,
                                create_new_hash, map_of_hashes, write_revised>>
                 /\ UNCHANGED <<resources_json, snapshot_files, snapshot_history,
                                git_staged, git_log>>
                 /\ UNCHANGED <<res, store>>

\* add_command in batch mode with a name given (add.py 44-76): the name must be
\* free; the resource object is made, the four actions are constructed, then
\* the plan runs
add_command(n, url, h, add_ok) ==
    /\ pc = "idle"
    /\ IF n \in resources_json
         THEN Raise("ConfigurationError", NoArgs, NoSnapshot, <<>>, NoNames, <<>>)
         ELSE run_plan(<<AddResource(n, h, add_ok),
                         AddResourceToFile(n, url, {UrlOf(x) : x \in resources_json}),
                         Plain("GitAdd"), GitCommitAdded(n)>>)

Add ==
    \E n \in Names, url \in {UrlOf(x) : x \in Names}, h \in Hashes, add_ok \in BOOLEAN :
       add_command(n, url, h, add_ok)

\* AddResource.run (add.py 19-20): resource.add()
AddResource_run ==
    /\ Running("AddResource")
    /\ content' = [content EXCEPT ![NextAction.name] = NextAction.hashval]
    /\ Advance
    /\ UNCHANGED <<resources_json, snapshot_files, snapshot_history, git_staged, git_log,
                   sr_resources, map_of_hashes, write_revised>>

\* AddResourceToFile.run (add.py 36-38): the resource is written to resources.json
AddResourceToFile_run ==
    /\ Running("AddResourceToFile")
    /\ resources_json' = resources_json \cup {NextAction.name}
    /\ Advance
    /\ UNCHANGED <<content, snapshot_files, snapshot_history, git_staged, git_log,
                   sr_resources, map_of_hashes, write_revised>>

\* PullResource.__init__ (pull.py 21-24): r.pull_prechecks(), which raise for a
\* resource with uncommitted changes; h is the content at the resource's origin
PullResource(n, h, dirty) == [act |-> Action("PullResource", n, h, "current"),
                              ok |-> n \notin dirty]

\* a PullWorkspace whose constructor does not look at the repository
PullWorkspace_unchecked(ws_dirty) ==
    [act |-> Action("PullWorkspace", NoName, NoHash, "none"), ok |-> TRUE]

\* PullWorkspace.__init__ (pull.py 47-52): the workspace must not be dirty
PullWorkspace(ws_dirty) ==
    [act |-> Action("PullWorkspace", NoName, NoHash, "none"),
     ok |-> ~(ws_dirty \/ git_staged # {})]

\* AddRemoteResource.__init__ (pull.py 34-37): the resource object is made from
\* the remote's json and its add_prechecks() are called
AddRemoteResource(n, h, refused) ==
    [act |-> Action("AddRemoteResource", n, h, "none"), ok |-> n \notin refused]

\* the actions of the remote resources this workspace does not have (pull.py 97-103)
RECURSIVE RemoteLoop(_, _, _)
RemoteLoop(names, h, refused) ==
    IF names = <<>> THEN <<>>
    ELSE <<AddRemoteResource(Head(names), h, refused), Plain("UpdateLocalParams")>>
         \o RemoteLoop(Tail(names), h, refused)

\* the PullResource of every resource (pull.py 92-94)
PullLoop(names, h, dirty) == [i \in 1..Len(names) |-> PullResource(names[i], h, dirty)]

\* pull_command (pull.py 83-121) without --only and --skip and with nothing to
\* add to .gitignore and no lineage directory; `remote` are the names in the
\* origin's resources.json
pull_command(only_workspace, remote, h, dirty, ws_dirty, refused) ==
    /\ pc = "idle"
    /\ IF only_workspace THEN run_plan(<<PullWorkspace(ws_dirty)>>)
       ELSE run_plan(PullLoop(sorted(resources_json), h, dirty)
                     \o <<PullWorkspace(ws_dirty)>>
                     \o RemoteLoop(sorted(remote \ resources_json), h, refused))

Pull ==
    \E only_workspace \in BOOLEAN, remote \in SUBSET Names, h \in Hashes :
    \E dirty \in SUBSET resources_json, ws_dirty \in BOOLEAN :
    \E refused \in SUBSET (remote \ resources_json) :
       pull_command(only_workspace, remote, h, dirty, ws_dirty, refused)

\* PullResource.run (pull.py 26-28): r.pull()
PullResource_run ==
    /\ Running("PullResource")
    /\ content' = [content EXCEPT ![NextAction.name] = NextAction.hashval]
    /\ Advance
    /\ UNCHANGED <<resources_json, snapshot_files, snapshot_history, git_staged, git_log,
                   sr_resources, map_of_hashes, write_revised>>

\* PullWorkspace.run (pull.py 54-57): `git pull origin master` brings the
\* origin's resources.json, which lists the resources that follow in the plan
PullWorkspace_run ==
    /\ Running("PullWorkspace")
    /\ resources_json' = resources_json
           \cup {plan[i].name : i \in {j \in 1..Len(plan) : plan[j].kind = "AddRemoteResource"}}
    /\ Advance
    /\ UNCHANGED <<content, snapshot_files, snapshot_history, git_staged, git_log,
                   sr_resources, map_of_hashes, write_revised>>

\* AddRemoteResource.run (pull.py 39-40): r.add_from_remote()
AddRemoteResource_run ==
    /\ Running("AddRemoteResource")
    /\ content' = [content EXCEPT ![NextAction.name] = NextAction.hashval]
    /\ Advance
    /\ UNCHANGED <<resources_json, snapshot_files, snapshot_history, git_staged, git_log,
                   sr_resources, map_of_hashes, write_revised>>

\* UpdateLocalParams.run writes resource_local_params.json, which is not among
\* the files followed here
UpdateLocalParams_run ==
    /\ Running("UpdateLocalParams")
    /\ Advance
    /\ UNCHANGED <<disk, sr_resources, map_of_hashes, write_revised>>

\* one command, restore or add or pull, in a workspace as Init gives it
NextCommands ==
    \/ Restore
    \/ Add
    \/ Pull
    \/ RestoreResource_run
    \/ AddResourceToSnapshot_run
    \/ TakeResourceSnapshot_run
    \/ WriteRevisedSnapshotFile_run
    \/ AppendSnapshotHistory_run
    \/ WriteRevisedResourceFile_run
    \/ GitAddDeferred_run
    \/ GitAdd_run
    \/ GitCommit_run
    \/ AddResource_run
    \/ AddResourceToFile_run
    \/ PullResource_run
    \/ PullWorkspace_run
    \/ AddRemoteResource_run
    \/ UpdateLocalParams_run
    \/ RunFails

SpecCommands == Init /\ [][NextCommands]_vars


\* =================================================== one resource object
\* ------------------------------------------------- utils/git_utils
is_git_dirty == tree # commits[head[cur_branch]]

\* commit_changes_in_repo: a new commit on the current branch when the working
\* tree has changes; <<commits, known, head>> afterwards
commit_changes_in_repo ==
    IF is_git_dirty
      THEN <<Append(commits, tree), known \cup {Len(commits) + 1},
             [head EXCEPT ![cur_branch] = Len(commits) + 1]>>
      ELSE <<commits, known, head>>

\* checkout_and_apply_commit: the branch and the working tree are brought to the
\* commit; the branch heads afterwards
checkout_and_apply_commit(heads, hashval) == [heads EXCEPT ![ConfBranch] = hashval]

\* room for the commits an operation may make
CanCommit(n) == Len(commits) + n <= MaxCommits

\* is_pull_needed_from_remote (git_resource.py 33-43): the remote head is a
\* commit the local repository does not have
is_pull_needed_from_remote == origin_head \notin known

\* the content of the files once some have been moved or one has been added
OtherTree(t) == (t % MaxHash) + 1

OpResult(op, result, c, r) == [op |-> op, result |-> result, cmp |-> c, rst |-> r]

\* an operation raises before it has changed anything
Fails(op, e) ==
    /\ last' = OpResult(op, e, NoHash, NoHash)
    /\ UNCHANGED <<identity, git_state, s3_state, taken, restored>>

\* an operation returns and has changed nothing
Passes(op) ==
    /\ last' = OpResult(op, "ok", NoHash, NoHash)
    /\ UNCHANGED <<identity, git_state, s3_state, taken, restored>>

\* `taken` is one of the pairs snapshot() has returned so far, any of them (or
\* NoPair), and `restored` is its restore hash once that has been restored and
\* the content has not been changed since
Returned(c, r) == {taken, [cmp |-> c, rst |-> r]}

Restored(hashval) == IF taken # NoPair /\ hashval = taken.rst THEN hashval ELSE NoHash

\* ------------------------------------------------- GitRepoResource
\* snapshot (git_resource.py 155-161): commit what is uncommitted, switch to the
\* resource's branch, return the head hash twice
GitRepoResource_snapshot ==
    /\ resource_class = "git"
    /\ UNCHANGED <<disk, cmd, store>>
    /\ is_git_dirty => CanCommit(1)
    /\ \E c \in {commit_changes_in_repo} :
          /\ commits' = c[1]
          /\ known' = c[2]
          /\ head' = c[3]
          /\ cur_branch' = ConfBranch
          /\ tree' = c[1][c[3][ConfBranch]]
          /\ last' = OpResult("snapshot", "ok", c[3][ConfBranch], c[3][ConfBranch])
          /\ taken' \in Returned(c[3][ConfBranch], c[3][ConfBranch])
    /\ UNCHANGED <<identity, origin_head, s3_state, restored>>

\* restore_prechecks and restore (git_resource.py 163-189): the hash must be a
\* commit of the repository; commit what is uncommitted, switch to the
\* resource's branch, check the commit out
GitRepoResource_restore(hashval) ==
    /\ resource_class = "git"
    /\ UNCHANGED <<disk, cmd, store>>
    /\ is_git_dirty => CanCommit(1)
    /\ IF hashval \notin known THEN Fails("restore_prechecks", "ConfigurationError")
       ELSE \E c \in {commit_changes_in_repo} :
          /\ commits' = c[1]
          /\ known' = c[2]
          /\ head' = checkout_and_apply_commit(c[3], hashval)
          /\ cur_branch' = ConfBranch
          /\ tree' = c[1][hashval]
          /\ last' = OpResult("restore", "ok", NoHash, hashval)
          /\ restored' = Restored(hashval)
          /\ UNCHANGED <<identity, origin_head, s3_state, taken>>

\* push_prechecks and push (git_resource.py 193-221)
GitRepoResource_push ==
    /\ resource_class = "git"
    /\ UNCHANGED <<disk, cmd, store>>
    /\ IF read_only THEN Passes("push")
       ELSE IF is_git_dirty \/ is_pull_needed_from_remote
         THEN Fails("push_prechecks", "ConfigurationError")
       ELSE /\ cur_branch' = ConfBranch
            /\ tree' = commits[head[ConfBranch]]
            /\ origin_head' = head[ConfBranch]
            /\ last' = OpResult("push", "ok", NoHash, NoHash)
            /\ restored' = IF cur_branch = ConfBranch THEN restored ELSE NoHash
            /\ UNCHANGED <<identity, commits, known, head, s3_state, taken>>

\* pull_prechecks and pull (git_resource.py 223-243): `git pull origin master`
\* brings the origin's commits and moves the branch to the origin's head
GitRepoResource_pull ==
    /\ resource_class = "git"
    /\ UNCHANGED <<disk, cmd, store>>
    /\ IF is_git_dirty THEN Fails("pull_prechecks", "ConfigurationError")
       ELSE /\ cur_branch' = ConfBranch
            /\ known' = known \cup {origin_head}
            /\ head' = [head EXCEPT ![ConfBranch] =
                           IF origin_head \in known THEN @ ELSE origin_head]
            /\ tree' = commits[head'[ConfBranch]]
            /\ last' = OpResult("pull", "ok", NoHash, NoHash)
            /\ restored' = NoHash
            /\ UNCHANGED <<identity, commits, origin_head, s3_state, taken>>

\* results_move_current_files (git_resource.py 113-129): switch to the
\* resource's branch, move the files there are, commit when any was moved;
\* `files` says whether there are files to move
GitRepoResource_results_move_current_files(files) ==
    /\ resource_class = "git"
    /\ UNCHANGED <<disk, cmd, store>>
    /\ files => CanCommit(1)
    /\ cur_branch' = ConfBranch
    /\ tree' = IF files THEN OtherTree(tree) ELSE tree
    /\ commits' = IF files THEN Append(commits, OtherTree(tree)) ELSE commits
    /\ known' = IF files THEN known \cup {Len(commits) + 1} ELSE known
    /\ head' = IF files THEN [head EXCEPT ![ConfBranch] = Len(commits) + 1] ELSE head
    /\ last' = OpResult("results_move_current_files", "ok", NoHash, NoHash)
    /\ restored' = NoHash
    /\ UNCHANGED <<identity, origin_head, s3_state, taken>>

\* add_results_file (git_resource.py 131-150): asserts the results role, then
\* copies the file in and commits it
GitRepoResource_add_results_file ==
    /\ resource_class = "git"
    /\ UNCHANGED <<disk, cmd, store>>
    /\ role = "results" => CanCommit(1)
    /\ IF role # "results" THEN Fails("add_results_file", "AssertionError")
       ELSE /\ cur_branch' = ConfBranch
            /\ tree' = OtherTree(tree)
            /\ commits' = Append(commits, OtherTree(tree))
            /\ known' = known \cup {Len(commits) + 1}
            /\ head' = [head EXCEPT ![ConfBranch] = Len(commits) + 1]
            /\ last' = OpResult("add_results_file", "ok", NoHash, NoHash)
            /\ restored' = NoHash
            /\ UNCHANGED <<identity, origin_head, s3_state, taken>>

\* ------------------------------------------------- GitRepoSubdirResource
\* results_move_current_files (git_resource.py 546-548)
GitRepoSubdirResource_results_move_current_files ==
    /\ resource_class = "git-subdirectory"
    /\ UNCHANGED <<disk, cmd, store>>
    /\ Fails("results_move_current_files", "InternalError")

\* add_results_file (git_resource.py 550-555)
GitRepoSubdirResource_add_results_file ==
    /\ resource_class = "git-subdirectory"
    /\ UNCHANGED <<disk, cmd, store>>
    /\ Fails("add_results_file", "InternalError")

\* a snapshot that compares by the head hash, as GitRepoResource does
GitRepoSubdirResource_snapshot_head_hash ==
    /\ resource_class = "git-subdirectory"
    /\ UNCHANGED <<disk, cmd, store>>
    /\ is_git_dirty => CanCommit(1)
    /\ \E c \in {commit_changes_in_repo} :
          /\ commits' = c[1]
          /\ known' = c[2]
          /\ head' = c[3]
          /\ last' = OpResult("snapshot", "ok", c[3][cur_branch], c[3][cur_branch])
          /\ taken' \in Returned(c[3][cur_branch], c[3][cur_branch])
    /\ UNCHANGED <<identity, tree, cur_branch, origin_head, s3_state, restored>>

\* snapshot (git_resource.py 560-566): commit what is uncommitted in the
\* subdirectory; the subdirectory's tree hash is compared, the head restored
GitRepoSubdirResource_snapshot ==
    /\ resource_class = "git-subdirectory"
    /\ UNCHANGED <<disk, cmd, store>>
    /\ is_git_dirty => CanCommit(1)
    /\ \E c \in {commit_changes_in_repo} :
          /\ commits' = c[1]
          /\ known' = c[2]
          /\ head' = c[3]
          /\ last' = OpResult("snapshot", "ok", c[1][c[3][cur_branch]], c[3][cur_branch])
          /\ taken' \in Returned(c[1][c[3][cur_branch]], c[3][cur_branch])
    /\ UNCHANGED <<identity, tree, cur_branch, origin_head, s3_state, restored>>

\* restore_prechecks and restore (git_resource.py 568-582): commit what is
\* uncommitted, bring the subdirectory to its content at the commit and commit
\* that when it differs from the head
GitRepoSubdirResource_restore(hashval) ==
    /\ resource_class = "git-subdirectory"
    /\ UNCHANGED <<disk, cmd, store>>
    /\ IF hashval \notin known THEN Fails("restore_prechecks", "ConfigurationError")
       ELSE /\ CanCommit((IF is_git_dirty THEN 1 ELSE 0)
                         + (IF commits[hashval] # tree THEN 1 ELSE 0))
            /\ \E c \in {commit_changes_in_repo} :
               /\ tree' = c[1][hashval]
               /\ commits' = IF tree' # tree THEN Append(c[1], tree') ELSE c[1]
               /\ known' = IF tree' # tree THEN c[2] \cup {Len(commits')} ELSE c[2]
               /\ head' = IF tree' # tree THEN [c[3] EXCEPT ![cur_branch] = Len(commits')]
                                          ELSE c[3]
               /\ last' = OpResult("restore", "ok", NoHash, hashval)
               /\ restored' = Restored(hashval)
               /\ UNCHANGED <<identity, cur_branch, origin_head, s3_state, taken>>

\* a push that runs the `git push origin master` the code has commented out
GitRepoSubdirResource_push_to_origin ==
    /\ resource_class = "git-subdirectory"
    /\ UNCHANGED <<disk, cmd, store>>
    /\ IF is_git_dirty \/ is_pull_needed_from_remote
         THEN Fails("push_prechecks", "ConfigurationError")
         ELSE /\ origin_head' = head[ConfBranch]
              /\ last' = OpResult("push", "ok", NoHash, NoHash)
              /\ UNCHANGED <<identity, tree, cur_branch, commits, known, head,
                             s3_state, taken, restored>>

\* push_prechecks and push (git_resource.py 584-601): the push happens at
\* workspace level
GitRepoSubdirResource_push ==
    /\ resource_class = "git-subdirectory"
    /\ UNCHANGED <<disk, cmd, store>>
    /\ IF is_git_dirty \/ is_pull_needed_from_remote
         THEN Fails("push_prechecks", "ConfigurationError")
         ELSE Passes("push")

\* pull_prechecks and pull (git_resource.py 603-613)
GitRepoSubdirResource_pull ==
    /\ resource_class = "git-subdirectory"
    /\ UNCHANGED <<disk, cmd, store>>
    /\ IF is_git_dirty THEN Fails("pull_prechecks", "ConfigurationError")
                       ELSE Passes("pull")

\* ------------------------------------------------- GitRepoResultsSubdirResource
\* results_move_current_files (git_resource.py 440-456): move the files there
\* are and commit the subdirectory when any was moved
GitRepoResultsSubdirResource_results_move_current_files(files) ==
    /\ resource_class = "git-subdirectory-results"
    /\ UNCHANGED <<disk, cmd, store>>
    /\ files => CanCommit(1)
    /\ tree' = IF files THEN OtherTree(tree) ELSE tree
    /\ commits' = IF files THEN Append(commits, OtherTree(tree)) ELSE commits
    /\ known' = IF files THEN known \cup {Len(commits) + 1} ELSE known
    /\ head' = IF files THEN [head EXCEPT ![cur_branch] = Len(commits) + 1] ELSE head
    /\ last' = OpResult("results_move_current_files", "ok", NoHash, NoHash)
    /\ restored' = NoHash
    /\ UNCHANGED <<identity, cur_branch, origin_head, s3_state, taken>>

\* add_results_file (git_resource.py 458-476): copy the file in, add and commit
GitRepoResultsSubdirResource_add_results_file ==
    /\ resource_class = "git-subdirectory-results"
    /\ UNCHANGED <<disk, cmd, store>>
    /\ CanCommit(1)
    /\ tree' = OtherTree(tree)
    /\ commits' = Append(commits, OtherTree(tree))
    /\ known' = known \cup {Len(commits) + 1}
    /\ head' = [head EXCEPT ![cur_branch] = Len(commits) + 1]
    /\ last' = OpResult("add_results_file", "ok", NoHash, NoHash)
    /\ restored' = NoHash
    /\ UNCHANGED <<identity, cur_branch, origin_head, s3_state, taken>>

\* snapshot (git_resource.py 481-486): nothing is committed
GitRepoResultsSubdirResource_snapshot ==
    /\ resource_class = "git-subdirectory-results"
    /\ UNCHANGED <<disk, cmd, store>>
    /\ last' = OpResult("snapshot", "ok", commits[head[cur_branch]], head[cur_branch])
    /\ taken' \in Returned(commits[head[cur_branch]], head[cur_branch])
    /\ UNCHANGED <<identity, git_state, s3_state, restored>>

\* restore_prechecks (git_resource.py 489-491) raises for every hash
GitRepoResultsSubdirResource_restore(hashval) ==
    /\ resource_class = "git-subdirectory-results"
    /\ UNCHANGED <<disk, cmd, store>>
    /\ Fails("restore_prechecks", "ConfigurationError")

\* push_prechecks and push (git_resource.py 498-512)
GitRepoResultsSubdirResource_push ==
    /\ resource_class = "git-subdirectory-results"
    /\ UNCHANGED <<disk, cmd, store>>
    /\ IF is_git_dirty \/ is_pull_needed_from_remote
         THEN Fails("push_prechecks", "ConfigurationError")
         ELSE Passes("push")

\* pull_prechecks and pull (git_resource.py 514-522)
GitRepoResultsSubdirResource_pull ==
    /\ resource_class = "git-subdirectory-results"
    /\ UNCHANGED <<disk, cmd, store>>
    /\ IF is_git_dirty THEN Fails("pull_prechecks", "ConfigurationError")
                       ELSE Passes("pull")

\* ------------------------------------------------- S3Resource
\* `tree` is the content of the bucket; a snapshot's hash names the content it
\* was taken of

\* results_move_current_files (s3_resource.py 113-116)
S3Resource_results_move_current_files ==
    /\ resource_class = "s3"
    /\ UNCHANGED <<disk, cmd, store>>
    /\ Fails("results_move_current_files", "NotSupportedError")

\* add_results_file (s3_resource.py 123-126)
S3Resource_add_results_file ==
    /\ resource_class = "s3"
    /\ UNCHANGED <<disk, cmd, store>>
    /\ Fails("add_results_file", "NotSupportedError")

\* upload_file (s3_resource.py 128-141): refused while a snapshot is selected
S3Resource_upload_file(c) ==
    /\ resource_class = "s3"
    /\ UNCHANGED <<disk, cmd, store>>
    /\ c # tree
    /\ IF current_snapshot # NoHash THEN Fails("upload_file", "NotSupportedError")
       ELSE /\ tree' = c
            /\ last' = OpResult("upload_file", "ok", NoHash, NoHash)
            /\ restored' = NoHash
            /\ UNCHANGED <<identity, cur_branch, commits, known, head, origin_head,
                           s3_state, taken>>

\* a snapshot that is taken of the bucket whether or not one is selected
S3Resource_snapshot_always_new ==
    /\ resource_class = "s3"
    /\ UNCHANGED <<disk, cmd, store>>
    /\ current_snapshot' = tree
    /\ current_snapshot_file' = tree
    /\ snapshot_fs' = tree
    /\ s3_snapshots' = s3_snapshots \cup {tree}
    /\ last' = OpResult("snapshot", "ok", tree, tree)
    /\ taken' \in Returned(tree, tree)
    /\ UNCHANGED <<identity, git_state, restored>>

\* snapshot (s3_resource.py 203-212): the selected snapshot when there is one;
\* otherwise a snapshot of the bucket, which becomes the selected one and is
\* written to current_snapshot.txt
S3Resource_snapshot ==
    /\ resource_class = "s3"
    /\ UNCHANGED <<disk, cmd, store>>
    /\ IF current_snapshot # NoHash
         THEN /\ last' = OpResult("snapshot", "ok", current_snapshot, current_snapshot)
              /\ taken' \in Returned(current_snapshot, current_snapshot)
              /\ UNCHANGED s3_state
         ELSE /\ current_snapshot' = tree
              /\ current_snapshot_file' = tree
              /\ snapshot_fs' = tree
              /\ s3_snapshots' = s3_snapshots \cup {tree}
              /\ last' = OpResult("snapshot", "ok", tree, tree)
              /\ taken' \in Returned(tree, tree)
    /\ UNCHANGED <<identity, git_state, restored>>

\* restore_precheck and restore (s3_resource.py 214-225): the snapshot's file
\* must be in the cache or the bucket; the snapshot becomes the selected one
S3Resource_restore(hashval) ==
    /\ resource_class = "s3"
    /\ UNCHANGED <<disk, cmd, store>>
    /\ IF hashval \notin s3_snapshots THEN Fails("restore_precheck", "ConfigurationError")
       ELSE /\ snapshot_fs' = hashval
            /\ current_snapshot' = hashval
            /\ last' = OpResult("restore", "ok", NoHash, hashval)
            /\ restored' = Restored(hashval)
            /\ UNCHANGED <<identity, git_state, current_snapshot_file, s3_snapshots, taken>>

\* __init__ (s3_resource.py 77-97) of a new S3Resource over the same scratch
\* directory.  With a current_snapshot.txt the constructor reads it and calls
\* _load_snapshot (89-92), which joins self.snapshot_cache_dir (101) before
\* the constructor has assigned it (94): AttributeError, no object is made.
\* Without the file the new object has no snapshot selected.
S3Resource_init ==
    /\ resource_class = "s3"
    /\ UNCHANGED <<disk, cmd, store>>
    /\ IF current_snapshot_file # NoHash THEN Fails("__init__", "AttributeError")
       ELSE /\ current_snapshot' = NoHash
            /\ snapshot_fs' = NoHash
            /\ last' = OpResult("__init__", "ok", NoHash, NoHash)
            /\ UNCHANGED <<identity, git_state, current_snapshot_file, s3_snapshots,
                           taken, restored>>

\* a delete_file that does not look for a selected snapshot
S3Resource_delete_file_unverified(c) ==
    /\ resource_class = "s3"
    /\ UNCHANGED <<disk, cmd, store>>
    /\ c # tree
    /\ tree' = c
    /\ last' = OpResult("delete_file", "ok", NoHash, NoHash)
    /\ restored' = NoHash
    /\ UNCHANGED <<identity, cur_branch, commits, known, head, origin_head,
                   s3_state, taken>>

\* delete_file (s3_resource.py 166-168): refused while a snapshot is selected,
\* else the file is removed from the bucket
S3Resource_delete_file(c) ==
    /\ resource_class = "s3"
    /\ UNCHANGED <<disk, cmd, store>>
    /\ c # tree
    /\ IF current_snapshot # NoHash THEN Fails("delete_file", "NotSupportedError")
       ELSE /\ tree' = c
            /\ last' = OpResult("delete_file", "ok", NoHash, NoHash)
            /\ restored' = NoHash
            /\ UNCHANGED <<identity, cur_branch, commits, known, head, origin_head,
                           s3_state, taken>>

\* does_subpath_exist (s3_resource.py 143-164): with a snapshot selected it
\* asserts snapshot_fs and asks the snapshot, else it asks the bucket
S3Resource_does_subpath_exist ==
    /\ resource_class = "s3"
    /\ UNCHANGED <<disk, cmd, store>>
    /\ IF current_snapshot # NoHash /\ snapshot_fs = NoHash
         THEN Fails("does_subpath_exist", "AssertionError")
         ELSE Passes("does_subpath_exist")

\* validate_subpath_exists (s3_resource.py 241-247); found: the subpath is in
\* the selected snapshot, or in the bucket when none is selected
S3Resource_validate_subpath_exists(found) ==
    /\ resource_class = "s3"
    /\ UNCHANGED <<disk, cmd, store>>
    /\ IF current_snapshot # NoHash /\ snapshot_fs = NoHash
         THEN Fails("validate_subpath_exists", "AssertionError")
       ELSE IF ~found THEN Fails("validate_subpath_exists", "ConfigurationError")
       ELSE Passes("validate_subpath_exists")

\* another copy of the workspace takes a snapshot of the bucket: its file is
\* written to the bucket's .snapshots
OtherCopySnapshot ==
    /\ resource_class = "s3"
    /\ tree \notin s3_snapshots
    /\ UNCHANGED <<disk, cmd, store>>
    /\ s3_snapshots' = s3_snapshots \cup {tree}
    /\ last' = NoOp
    /\ UNCHANGED <<identity, git_state, current_snapshot, current_snapshot_file,
                   snapshot_fs, taken, restored>>

\* push_precheck and push (s3_resource.py 190-198)
S3Resource_push ==
    /\ resource_class = "s3"
    /\ UNCHANGED <<disk, cmd, store>>
    /\ Passes("push")

\* pull_precheck and pull (s3_resource.py 180-188)
S3Resource_pull ==
    /\ resource_class = "s3"
    /\ UNCHANGED <<disk, cmd, store>>
    /\ Passes("pull")

\* ------------------------------------------------- the workspace's repository
SubdirClasses == {"git-subdirectory", "git-subdirectory-results"}

\* _push_precheck and push (backends/git.py 208-222): `git push origin master`
\* on the repository the subdirectory resources live in
GitWorkspace_push ==
    /\ resource_class \in SubdirClasses
    /\ UNCHANGED <<disk, cmd, store>>
    /\ IF is_git_dirty \/ is_pull_needed_from_remote
         THEN Fails("workspace_push", "ConfigurationError")
         ELSE /\ origin_head' = head[ConfBranch]
              /\ last' = OpResult("workspace_push", "ok", NoHash, NoHash)
              /\ UNCHANGED <<identity, tree, cur_branch, commits, known, head,
                             s3_state, taken, restored>>

\* pull_workspace (backends/git.py 192-206): `git pull origin master`
GitWorkspace_pull_workspace ==
    /\ resource_class \in SubdirClasses
    /\ UNCHANGED <<disk, cmd, store>>
    /\ IF is_git_dirty THEN Fails("workspace_pull", "ConfigurationError")
       ELSE /\ known' = known \cup {origin_head}
            /\ head' = [head EXCEPT ![cur_branch] =
                           IF origin_head \in known THEN @ ELSE origin_head]
            /\ tree' = commits[head'[cur_branch]]
            /\ last' = OpResult("workspace_pull", "ok", NoHash, NoHash)
            /\ restored' = NoHash
            /\ UNCHANGED <<identity, cur_branch, commits, origin_head, s3_state, taken>>

\* ------------------------------------------------- what happens around the object
\* the user, or a writer to the bucket, changes the content
Edit(c) ==
    /\ c # tree
    /\ UNCHANGED <<disk, cmd, store>>
    /\ tree' = c
    /\ last' = NoOp
    /\ restored' = NoHash
    /\ UNCHANGED <<identity, cur_branch, commits, known, head, origin_head, s3_state, taken>>

\* the user checks another branch out in the clean repository of a git resource
\* (a subdirectory resource has no branch of its own)
UserCheckout(b) ==
    /\ resource_class = "git"
    /\ UNCHANGED <<disk, cmd, store>>
    /\ b # cur_branch
    /\ ~is_git_dirty
    /\ cur_branch' = b
    /\ tree' = commits[head[b]]
    /\ last' = NoOp
    /\ restored' = NoHash
    /\ UNCHANGED <<identity, commits, known, head, origin_head, s3_state, taken>>

\* somebody else pushes a commit to the remote origin, one the repository does not
\* have yet, with a change to the content at the origin's head
RemoteCommit ==
    /\ resource_class # "s3"
    /\ UNCHANGED <<disk, cmd, store>>
    /\ CanCommit(1)
    /\ origin_head \in known
    /\ commits' = Append(commits, OtherTree(commits[origin_head]))
    /\ origin_head' = Len(commits) + 1
    /\ last' = NoOp
    /\ UNCHANGED <<identity, tree, cur_branch, known, head, s3_state, taken, restored>>

\* the classes a role can have (git_resource.py 317-346 and 425, 531;
\* s3_resource.py 51-52)
ResourceObjects ==
    {<<"git", r, ro>> : r \in Roles, ro \in BOOLEAN}
    \cup {<<"git-subdirectory", r, FALSE>> : r \in Roles \ {"results"}}
    \cup {<<"git-subdirectory-results", "results", FALSE>>}
    \cup {<<"s3", r, FALSE>> : r \in Roles \ {"results"}}

\* restore is called with a hash a snapshot has returned, which a manifest then
\* holds, or with one that names no state of the resource
RestoreHashes == {NoHash, taken.rst}

InitObject ==
    /\ InitWorkspace(Names, Names)
    /\ InitCommand
    /\ \E o \in ResourceObjects : InitResource(o[1], o[2], o[3])
    /\ NoSnapshots
    /\ AtRest

NextObject ==
    \/ GitRepoResource_snapshot
    \/ \E h \in RestoreHashes : GitRepoResource_restore(h)
    \/ GitRepoResource_push
    \/ GitRepoResource_pull
    \/ \E files \in BOOLEAN : GitRepoResource_results_move_current_files(files)
    \/ GitRepoResource_add_results_file
    \/ GitRepoSubdirResource_snapshot
    \/ \E h \in RestoreHashes : GitRepoSubdirResource_restore(h)
    \/ GitRepoSubdirResource_push
    \/ GitRepoSubdirResource_pull
    \/ GitRepoSubdirResource_results_move_current_files
    \/ GitRepoSubdirResource_add_results_file
    \/ GitRepoResultsSubdirResource_snapshot
    \/ \E h \in RestoreHashes : GitRepoResultsSubdirResource_restore(h)
    \/ GitRepoResultsSubdirResource_push
    \/ GitRepoResultsSubdirResource_pull
    \/ \E files \in BOOLEAN : GitRepoResultsSubdirResource_results_move_current_files(files)
    \/ GitRepoResultsSubdirResource_add_results_file
    \/ S3Resource_snapshot
    \/ \E h \in Hashes \cup {NoHash} : S3Resource_restore(h)
    \/ S3Resource_push
    \/ S3Resource_pull
    \/ S3Resource_results_move_current_files
    \/ S3Resource_add_results_file
    \/ \E c \in Hashes : S3Resource_upload_file(c)
    \/ S3Resource_init
    \/ \E c \in Hashes : S3Resource_delete_file(c)
    \/ S3Resource_does_subpath_exist
    \/ \E found \in BOOLEAN : S3Resource_validate_subpath_exists(found)
    \/ OtherCopySnapshot
    \/ GitWorkspace_push
    \/ GitWorkspace_pull_workspace
    \/ \E c \in Hashes : Edit(c)
    \/ \E b \in Branches : UserCheckout(b)
    \/ RemoteCommit

SpecObject == InitObject /\ [][NextObject]_vars

\* ------------------------------------- the snapshot metadata of the backend
\* (dataworkspaces/backends/git.py).  A behaviour is one workspace directory
\* on which snapshots are taken and the metadata calls are made one at a time.
\* Hashes, tags and messages are sequences of one-character strings.

\* ---------------------------------------------------------------- bounds
\* most snapshots the metadata directory holds; their timestamps are 1..MaxSnapshots
MaxSnapshots == 2

\* the manifests there are, as bytes, and the time stamps of the clock
ManifestBytes == {1, 2, 3}
Timestamps == 1..MaxSnapshots
\* hashlib's hexdigest of a manifest: lower-case hexadecimal digits
hexdigest(manifest) ==
    CASE manifest = 1 -> <<"a", "a">>
      [] manifest = 2 -> <<"a", "b">>
      [] OTHER -> <<"b", "a">>
\* the hashes a user may ask for: those of the manifests, as written or with
\* capital digits, and one that no manifest has
HashArgs == {hexdigest(m) : m \in ManifestBytes}
                \cup {<<"A", "a">>, <<"A", "B">>, <<"b", "b">>}
PartialHashArgs == {<<"a">>, <<"A">>, <<"b">>, <<"a", "b">>, <<"b", "b">>}
\* the tags: the first is part of the second, of every hash and of a message;
\* the second holds a character that JSON writes with an escape
SnapshotTags == {<<"a">>, <<"a", "\"", "b">>}
Messages == {<<>>, <<"a">>}
\* no tag was given for a snapshot
NoTagGiven == <<>>
SnapshotMetadata(hashval, tags, message, timestamp) ==
    [hashval |-> hashval, tags |-> tags, message |-> message, timestamp |-> timestamp]

\* str.lower()
lower(s) ==
    [i \in 1..Len(s) |-> IF s[i] = "A" THEN "a" ELSE IF s[i] = "B" THEN "b" ELSE s[i]]
\* str.startswith
startswith(s, prefix) ==
    Len(prefix) <= Len(s) /\ SubSeq(s, 1, Len(prefix)) = prefix
\* regexp.search for an escaped pattern: the pattern occurs somewhere in the text
search(pattern, text) ==
    \E i \in 0..(Len(text) - Len(pattern)) : SubSeq(text, i + 1, i + Len(pattern)) = pattern
\* json.dump of a string: a double quote and a backslash get a backslash before them
RECURSIVE json_string(_)
json_string(s) ==
    IF s = <<>> THEN <<>>
    ELSE (IF s[1] \in {"\"", "\\"} THEN <<"\\", s[1]>> ELSE <<s[1]>>) \o json_string(Tail(s))
\* the strings in the text of a metadata file; the text between them (keys,
\* brackets, commas and line ends) holds no character of a tag of the model
raw_data(md) ==
    {json_string(md.hashval), json_string(md.message)} \cup {json_string(t) : t \in md.tags}

\* os.listdir gives the files of a directory in an arbitrary order
RECURSIVE listdir(_)
listdir(names) ==
    IF names = {} THEN {<<>>}
    ELSE UNION {{<<f>> \o rest : rest \in listdir(names \ {f})} : f \in names}

\* the loop of get_snapshot_by_tag over one listing: the metadata of the first
\* file whose text holds the tag and whose tags include it, <<>> if none
scan_for_tag(listing, tag) ==
    SelectSeq(listing, LAMBDA f : /\ \E text \in raw_data(md_files[f]) : search(tag, text)
                                  /\ tag \in md_files[f].tags)

\* (a variant that leaves the snapshots in the order of the listing)
sort_as_listed(snapshots, reverse) == snapshots

\* list.sort(key=lambda md:md.timestamp, reverse=reverse): a stable sort
RECURSIVE sort(_, _)
sort(snapshots, reverse) ==
    IF snapshots = <<>> THEN <<>>
    ELSE LET i == CHOOSE k \in 1..Len(snapshots) :
                    /\ \A j \in 1..Len(snapshots) :
                         IF reverse THEN snapshots[j].timestamp <= snapshots[k].timestamp
                         ELSE snapshots[j].timestamp >= snapshots[k].timestamp
                    /\ \A j \in 1..(k-1) : snapshots[j].timestamp # snapshots[k].timestamp
         IN <<snapshots[i]>>
              \o sort(SubSeq(snapshots, 1, i-1) \o SubSeq(snapshots, i+1, Len(snapshots)),
                      reverse)

Call(op) == [NoReply EXCEPT !.op = op, !.result = "ok"]
Answer(r) == reply' = r /\ UNCHANGED <<md_files, manifest_files, copy_md_names, numbers>>

\* (a variant that counts from zero)
next_snapshot_number_from_zero(names) == Cardinality(names)

\* 1 for a missing or empty metadata directory, else 1 + the number of _md.json files
next_snapshot_number(names) ==
    IF names = {} THEN 1 ELSE 1 + Cardinality(names)

get_next_snapshot_number ==
    /\ Answer([Call("get_next_snapshot_number") EXCEPT
                 !.number = next_snapshot_number(DOMAIN md_files)])
    /\ UNCHANGED <<disk, cmd, res, more>>

\* (a variant that looks for the file under the hash as it was given)
get_snapshot_metadata_as_given(hash_val) ==
    /\ Answer([Call("get_snapshot_metadata") EXCEPT
                 !.hash_val = hash_val,
                 !.result = IF hash_val \in DOMAIN md_files THEN "ok"
                            ELSE "ConfigurationError",
                 !.returned = IF hash_val \in DOMAIN md_files
                              THEN <<md_files[hash_val]>> ELSE <<>>])
    /\ UNCHANGED <<disk, cmd, res, more>>

get_snapshot_metadata(hash_val) ==
    /\ \E file \in {lower(hash_val)} :
         Answer([Call("get_snapshot_metadata") EXCEPT
                   !.hash_val = hash_val,
                   !.result = IF file \notin DOMAIN md_files THEN "ConfigurationError"
                              ELSE IF md_files[file].hashval # file THEN "AssertionError"
                              ELSE "ok",
                   !.returned = IF file \in DOMAIN md_files /\ md_files[file].hashval = file
                                THEN <<md_files[file]>> ELSE <<>>])
    /\ UNCHANGED <<disk, cmd, res, more>>

get_snapshot_by_tag(tag) ==
    /\ \E found \in {scan_for_tag(listing, tag) : listing \in listdir(DOMAIN md_files)} :
           Answer([Call("get_snapshot_by_tag") EXCEPT
                     !.tag_val = tag,
                     !.result = IF found = <<>> THEN "ConfigurationError" ELSE "ok",
                     !.returned = IF found = <<>> THEN <<>> ELSE <<md_files[found[1]]>>])
    /\ UNCHANGED <<disk, cmd, res, more>>

get_snapshot_by_partial_hash(partial_hash) ==
    /\ \E found \in {SelectSeq(listing, LAMBDA f : startswith(lower(f), lower(partial_hash))) :
                     listing \in listdir(DOMAIN md_files)} :
           Answer([Call("get_snapshot_by_partial_hash") EXCEPT
                     !.hash_val = partial_hash,
                     !.result = IF found = <<>> THEN "ConfigurationError"
                                ELSE IF lower(found[1]) \notin DOMAIN md_files
                                     THEN "ConfigurationError"
                                ELSE "ok",
                     !.returned = IF found = <<>> \/ lower(found[1]) \notin DOMAIN md_files
                                  THEN <<>> ELSE <<md_files[lower(found[1])]>>])
    /\ UNCHANGED <<disk, cmd, res, more>>

get_snapshot_manifest_as_bytes(hash_val) ==
    /\ \E file \in {lower(hash_val)} :
         Answer([Call("_get_snapshot_manifest_as_bytes") EXCEPT
                   !.hash_val = hash_val,
                   !.result = IF file \in DOMAIN manifest_files THEN "ok"
                              ELSE "ConfigurationError",
                   !.data = IF file \in DOMAIN manifest_files THEN manifest_files[file]
                            ELSE 0])
    /\ UNCHANGED <<disk, cmd, res, more>>

\* max_count is {} for None and {n} for the number n
list_snapshots(reverse, max_count) ==
    /\ \E snapshots \in {sort([i \in 1..Len(listing) |-> md_files[listing[i]]], reverse) :
                         listing \in listdir(DOMAIN md_files)} :
           Answer([Call("list_snapshots") EXCEPT
                     !.reverse = reverse,
                     !.max_count = max_count,
                     !.returned = IF max_count = {} THEN snapshots
                                  ELSE SubSeq(snapshots, 1,
                                              CHOOSE n \in 0..Len(snapshots) :
                                                \E m \in max_count :
                                                  n = IF m < Len(snapshots) THEN m
                                                      ELSE Len(snapshots))])
    /\ UNCHANGED <<disk, cmd, res, more>>

\* the tags the list comprehension of remove_tag_from_snapshot keeps: its loop
\* variable has the name of the parameter, so each tag is compared with itself
tags_kept(tags, tag) == {x \in tags : x # x}

remove_tag_from_snapshot(hash_val, tag) ==
    /\ \E file \in {lower(hash_val)} :
         \E result \in {IF file \notin DOMAIN md_files THEN "InternalError"
                        ELSE IF md_files[file].hashval # hash_val THEN "AssertionError"
                        ELSE IF tag \notin md_files[file].tags THEN "InternalError"
                        ELSE "ok"} :
           /\ reply' = [Call("remove_tag_from_snapshot") EXCEPT
                          !.hash_val = hash_val, !.tag_val = tag, !.result = result]
           /\ md_files' = IF result = "ok"
                          THEN [md_files EXCEPT
                                  ![file].tags = tags_kept(md_files[file].tags, tag)]
                          ELSE md_files
    /\ UNCHANGED <<manifest_files, copy_md_names, numbers>>
    /\ UNCHANGED <<disk, cmd, res, more>>

\* both files are opened for writing, whether they exist or not
save_snapshot_metadata_and_manifest(metadata, manifest) ==
    /\ manifest_files' = [f \in DOMAIN manifest_files \cup {metadata.hashval} |->
                            IF f = metadata.hashval THEN manifest ELSE manifest_files[f]]
    /\ md_files' = [f \in DOMAIN md_files \cup {metadata.hashval} |->
                      IF f = metadata.hashval THEN metadata ELSE md_files[f]]

\* the snapshot manager: the hash is the digest of the manifest; a tag that a
\* snapshot with another hash has is refused, a tag this very snapshot has
\* already is left alone, and otherwise manifest and metadata are saved
take_snapshot(manifest, message, tag, timestamp) ==
    /\ hexdigest(manifest) \in DOMAIN md_files \/ Cardinality(DOMAIN md_files) < MaxSnapshots
    /\ \E owner \in {IF tag = NoTagGiven THEN <<>> ELSE scan_for_tag(listing, tag) :
                     listing \in listdir(DOMAIN md_files)} :
           IF owner # <<>> /\ owner[1] # hexdigest(manifest)
           THEN Answer([Call("take_snapshot") EXCEPT
                          !.hash_val = hexdigest(manifest), !.tag_val = tag,
                          !.result = "ConfigurationError"])
           ELSE IF owner # <<>>
           THEN Answer([Call("take_snapshot") EXCEPT
                          !.hash_val = hexdigest(manifest), !.tag_val = tag])
           ELSE /\ save_snapshot_metadata_and_manifest(
                     SnapshotMetadata(hexdigest(manifest),
                                      IF tag = NoTagGiven THEN {} ELSE {tag},
                                      message, timestamp),
                     manifest)
                /\ reply' = [Call("take_snapshot") EXCEPT
                               !.hash_val = hexdigest(manifest), !.tag_val = tag]
                /\ UNCHANGED <<copy_md_names, numbers>>
    /\ UNCHANGED <<disk, cmd, res, more>>

\* one of two copies of the workspace takes a snapshot, without a tag, before
\* the copies are synchronised: it asks for the next snapshot number and saves
\* manifest and metadata in its own directory.  Copy 1 is the workspace of
\* md_files; of copy 2 the names of the metadata files are kept
workspace_copy_snapshot(c, manifest, message, timestamp) ==
    /\ numbers[c] = 0
    /\ \E names \in {IF c = 1 THEN DOMAIN md_files ELSE copy_md_names} :
         /\ hexdigest(manifest) \in names \/ Cardinality(names) < MaxSnapshots
         /\ numbers' = [numbers EXCEPT ![c] = next_snapshot_number(names)]
    /\ IF c = 1
       THEN /\ save_snapshot_metadata_and_manifest(
                 SnapshotMetadata(hexdigest(manifest), {}, message, timestamp), manifest)
            /\ UNCHANGED copy_md_names
       ELSE /\ copy_md_names' = copy_md_names \cup {hexdigest(manifest)}
            /\ UNCHANGED <<md_files, manifest_files>>
    /\ reply' = [Call("take_snapshot") EXCEPT !.hash_val = hexdigest(manifest)]
    /\ UNCHANGED <<disk, cmd, res, more>>

\* no two metadata files share a tag, each file holds the metadata of its own
\* hash, and each snapshot has its manifest
WellFormedStore(md, manifests) ==
    /\ \A f \in DOMAIN md : md[f].hashval = f
    /\ \A f, g \in DOMAIN md : f # g => md[f].tags \cap md[g].tags = {}
    /\ DOMAIN manifests = DOMAIN md
    /\ \A f \in DOMAIN manifests : hexdigest(manifests[f]) = f

\* the files that the snapshots taken so far have left
StoredSnapshots ==
    /\ InitWorkspace(Names, Names)
    /\ InitCommand
    /\ InitResource("git", "source-data", FALSE)
    /\ \E taken_before \in SUBSET ManifestBytes :
         /\ Cardinality(taken_before) <= MaxSnapshots
         /\ manifest_files = [f \in {hexdigest(m) : m \in taken_before} |->
                                CHOOSE m \in taken_before : hexdigest(m) = f]
         /\ md_files \in [DOMAIN manifest_files ->
                            [hashval : DOMAIN manifest_files, tags : SUBSET SnapshotTags,
                             message : Messages, timestamp : Timestamps]]
         /\ WellFormedStore(md_files, manifest_files)
    /\ reply = NoReply
    /\ AtRest

InitStore ==
    /\ StoredSnapshots
    /\ copy_md_names = {}
    /\ numbers = <<0, 0>>

\* a clone of the workspace was made: it holds the same metadata files
InitCopies ==
    /\ StoredSnapshots
    /\ copy_md_names = DOMAIN md_files
    /\ numbers = <<0, 0>>

NextStore ==
    \/ get_next_snapshot_number
    \/ \E h \in HashArgs : get_snapshot_metadata(h)
    \/ \E t \in SnapshotTags : get_snapshot_by_tag(t)
    \/ \E p \in PartialHashArgs : get_snapshot_by_partial_hash(p)
    \/ \E h \in HashArgs : get_snapshot_manifest_as_bytes(h)
    \/ \E r \in BOOLEAN, n \in {{}} \cup {{k} : k \in 0..(MaxSnapshots + 1)} :
         list_snapshots(r, n)
    \/ \E h \in HashArgs, t \in SnapshotTags : remove_tag_from_snapshot(h, t)
    \/ \E m \in ManifestBytes, msg \in Messages, t \in SnapshotTags \cup {NoTagGiven},
          ts \in Timestamps : take_snapshot(m, msg, t, ts)

SpecStore == InitStore /\ [][NextStore]_vars

\* two copies of one workspace, synchronised at the start
NextCopies ==
    \/ get_next_snapshot_number
    \/ \E c \in {1, 2}, m \in ManifestBytes, msg \in Messages, ts \in Timestamps :
         workspace_copy_snapshot(c, m, msg, ts)

SpecCopies == InitCopies /\ [][NextCopies]_vars

\* ------------------------------------------ dws add, one command after another
\* most answers the user gives to the name prompt of one command
MaxAnswers == 2

\* the urls the added resources resolve to
Urls == {"/a", "/b", "/c"}

\* the while loop of add_command (add.py 57-66): the prompt is repeated while
\* there is no name or the name is in use; None when the answers ran out
RECURSIVE prompt_for_name(_, _, _)
prompt_for_name(name, current_names, answers) ==
    IF name # None /\ name \notin current_names THEN name
    ELSE IF answers = <<>> THEN None
    ELSE prompt_for_name(Head(answers), current_names, Tail(answers))

\* `name in current_names` (add.py 52)
name_in_use(name, current_names) == name \in current_names

\* `resource.url in current_resources.urls` (add.py 33)
url_registered(url, current_urls) == url \in current_urls

\* the command ends; `file` is resources.json as it leaves it
Added(result, name, url, batch, ran, file) ==
    /\ added' = [name |-> name, result |-> result, url |-> url, batch |-> batch, ran |-> ran]
    /\ resources_file' = file
    /\ UNCHANGED <<disk, cmd, res, attrs, moves, writes>>
    /\ UNCHANGED <<md_files, manifest_files, reply, copy_md_names, numbers>>

\* one `dws add git` from the command line to the end of run_plan (dws.py
\* 170-178, add.py 44-76).  name is the --name option or None, answers what
\* the user types at the name prompt, url the url of the resource made from
\* the path; add_ok says whether add_prechecks pass, confirm is the answer to
\* run_plan's question, fails_at the action whose run() raises (0: none).
\* In batch mode without --name a tuple is passed as **args (add.py 49-50),
\* which raises TypeError.
dws_add(batch, name, answers, url) ==
    LET current_names == {resources_file[i].name : i \in 1..Len(resources_file)}
        current_urls == {resources_file[i].url : i \in 1..Len(resources_file)}
        settled == IF batch THEN name ELSE prompt_for_name(name, current_names, answers)
    IN IF batch /\ name = None
         THEN Added("TypeError", None, url, batch, 0, resources_file)
       ELSE IF batch /\ name_in_use(name, current_names)
         THEN Added("ConfigurationError", name, url, batch, 0, resources_file)
       ELSE /\ settled # None
            /\ \E add_ok \in BOOLEAN :
                 IF ~add_ok \/ url_registered(url, current_urls)
                   THEN Added("ConfigurationError", settled, url, batch, 0, resources_file)
                 ELSE \E confirm \in BOOLEAN :
                   IF ~batch /\ ~confirm
                     THEN Added("UserAbort", settled, url, batch, 0, resources_file)
                   ELSE \E fails_at \in 0..4 :
                     \E ran \in {IF fails_at = 0 THEN 4 ELSE fails_at - 1} :
                        Added(IF fails_at = 0 THEN "ok" ELSE "RunError", settled, url,
                              batch, ran,
                              IF ran >= 2
                                THEN Append(resources_file, [name |-> settled, url |-> url])
                                ELSE resources_file)

NextAdds ==
    \E batch \in BOOLEAN, name \in Names \cup {None}, url \in Urls :
    \E answers \in UNION {[1..k -> Names] : k \in 0..MaxAnswers} :
       dws_add(batch, name, answers, url)

InitAdds ==
    /\ InitWorkspace(Names, Names)
    /\ InitCommand
    /\ InitResource("git", "source-data", FALSE)
    /\ NoSnapshots
    /\ NoAdds
    /\ NoObjects
    /\ NoMoves
    /\ NoWriters

SpecAdds == InitAdds /\ [][NextAdds]_vars

\* ------------------------------- prechecks and operations on resource objects
\* most resource objects one command makes
MaxObjects == 2

Undefined == "undefined"

Returns(o) == [obj |-> o, raised |-> "none"]
Raises(o, e) == [obj |-> o, raised |-> e]

\* reading an attribute of the object: AttributeError when it was never set
ReadAttribute(value, o, then) == IF value = Undefined THEN Raises(o, "AttributeError") ELSE then

\* restore_prechecks (git_resource.py 163-177); found: the hash is a commit of
\* the repository, in_path: validate_git_fat_in_path passes
GitRepoResource_restore_prechecks(o, found, in_path) ==
    IF ~found THEN Raises(o, "ConfigurationError")
    ELSE IF o.git_fat_repo
      THEN LET set == [o EXCEPT !.python2_exe = "python2", !.uses_git_fat = "True"]
           IN IF in_path THEN Returns([set EXCEPT !.prechecked = "RestoreResource"])
                         ELSE Raises(set, "ConfigurationError")
    ELSE Returns([o EXCEPT !.uses_git_fat = "False", !.prechecked = "RestoreResource"])

\* the git-fat call at the end of restore and pull (git_resource.py 184-189,
\* 240-243)
run_git_fat_if_used(o) ==
    ReadAttribute(o.uses_git_fat, o,
        IF o.uses_git_fat = "True"
          THEN ReadAttribute(o.python2_exe, o, Returns([o EXCEPT !.fat_calls = @ + 1]))
          ELSE Returns(o))

\* restore (git_resource.py 179-189): the checkout, then the git-fat pull
GitRepoResource_restore_on(o) == run_git_fat_if_used(o)

\* push_prechecks (git_resource.py 193-208): a read-only resource returns at
\* once; dirty and pull_needed are what is_git_dirty and
\* is_pull_needed_from_remote find
GitRepoResource_push_prechecks(o, dirty, pull_needed) ==
    IF o.read_only THEN Returns([o EXCEPT !.prechecked = "PushResource"])
    ELSE IF dirty \/ pull_needed THEN Raises(o, "ConfigurationError")
    ELSE IF o.git_fat_repo
      THEN Returns([o EXCEPT !.python2_exe = "python2", !.uses_git_fat = "True",
                             !.prechecked = "PushResource"])
    ELSE Returns([o EXCEPT !.uses_git_fat = "False", !.prechecked = "PushResource"])

\* a push that goes to the origin whatever read_only says
GitRepoResource_push_on_always(o) ==
    run_git_fat_if_used([o EXCEPT !.pushed = TRUE])

\* push (git_resource.py 210-221): nothing for a read-only resource, else
\* `git push origin <branch>` and the git-fat push
GitRepoResource_push_on(o) ==
    IF o.read_only THEN Returns(o)
    ELSE run_git_fat_if_used([o EXCEPT !.pushed = TRUE])

\* pull_prechecks (git_resource.py 223-233)
GitRepoResource_pull_prechecks(o, dirty) ==
    IF dirty THEN Raises(o, "ConfigurationError")
    ELSE IF o.git_fat_repo
      THEN Returns([o EXCEPT !.python2_exe = "python2", !.uses_git_fat = "True",
                             !.prechecked = "PullResource"])
    ELSE Returns([o EXCEPT !.uses_git_fat = "False", !.prechecked = "PullResource"])

\* pull (git_resource.py 235-243): `git pull origin master` and the git-fat pull
GitRepoResource_pull_on(o) == run_git_fat_if_used(o)

ActionKinds == {"RestoreResource", "PushResource", "PullResource"}

\* the object on which an action's run() calls the operation of a neighbour
resource_of_neighbour(a) == (a.r % MaxObjects) + 1

\* self.resource / self.r of an action (restore.py 15, pull.py 23)
resource_of(a) == a.r

\* the constructor of an action of class kind on the resource object r
\* (restore.py 13-17, pull.py 21-24; PushResource likewise): it calls the
\* precheck of its class on r; a precheck that raises ends the command
Construct(kind, r, found, dirty, pull_needed, in_path) ==
    /\ outcome = "building"
    /\ \A i \in 1..Len(built) : built[i].kind = kind /\ built[i].r # r
    /\ \E result \in {CASE kind = "RestoreResource" ->
                             GitRepoResource_restore_prechecks(objects[r], found, in_path)
                        [] kind = "PushResource" ->
                             GitRepoResource_push_prechecks(objects[r], dirty, pull_needed)
                        [] kind = "PullResource" ->
                             GitRepoResource_pull_prechecks(objects[r], dirty)} :
          /\ objects' = [objects EXCEPT ![r] = result.obj]
          /\ built' = IF result.raised = "none"
                        THEN Append(built, [kind |-> kind, r |-> r]) ELSE built
          /\ outcome' = IF result.raised = "none" THEN outcome ELSE result.raised
    /\ UNCHANGED actions_run
    /\ UNCHANGED <<disk, cmd, res, adds, moves, writes>>
    /\ UNCHANGED <<md_files, manifest_files, reply, copy_md_names, numbers>>

\* every constructor has returned: the command calls actions.run_plan
RunPlan ==
    /\ outcome = "building"
    /\ built # <<>>
    /\ outcome' = "running"
    /\ UNCHANGED <<objects, built, actions_run>>
    /\ UNCHANGED <<disk, cmd, res, adds, moves, writes>>
    /\ UNCHANGED <<md_files, manifest_files, reply, copy_md_names, numbers>>

\* run() of the next action (restore.py 19-20, pull.py 26-28): the operation
\* of its class on the object the action holds
RunAction ==
    /\ outcome = "running"
    /\ \E a \in {built[actions_run + 1]} :
       \E r \in {resource_of(a)} :
       \E result \in {CASE a.kind = "RestoreResource" -> GitRepoResource_restore_on(objects[r])
                        [] a.kind = "PushResource" -> GitRepoResource_push_on(objects[r])
                        [] a.kind = "PullResource" -> GitRepoResource_pull_on(objects[r])} :
          /\ objects' = [objects EXCEPT ![r] = result.obj]
          /\ actions_run' = IF result.raised = "none" THEN actions_run + 1 ELSE actions_run
          /\ outcome' = IF result.raised # "none" THEN result.raised
                        ELSE IF actions_run + 1 = Len(built) THEN "done" ELSE "running"
    /\ UNCHANGED built
    /\ UNCHANGED <<disk, cmd, res, adds, moves, writes>>
    /\ UNCHANGED <<md_files, manifest_files, reply, copy_md_names, numbers>>

\* the resource objects a command has read from resources.json: no precheck
\* has been called on them
InitPrechecks ==
    /\ InitWorkspace(Names, Names)
    /\ InitCommand
    /\ InitResource("git", "source-data", FALSE)
    /\ NoSnapshots
    /\ NoAdds
    /\ NoMoves
    /\ NoWriters
    /\ objects \in [1..MaxObjects ->
                      [read_only : BOOLEAN, git_fat_repo : BOOLEAN, uses_git_fat : {Undefined},
                       python2_exe : {Undefined}, prechecked : {"none"}, pushed : {FALSE},
                       fat_calls : {0}]]
    /\ built = <<>>
    /\ actions_run = 0
    /\ outcome = "building"

NextPrechecks ==
    \/ \E kind \in ActionKinds, r \in 1..MaxObjects :
       \E found \in BOOLEAN, dirty \in BOOLEAN, pull_needed \in BOOLEAN, in_path \in BOOLEAN :
          Construct(kind, r, found, dirty, pull_needed, in_path)
    \/ RunPlan
    \/ RunAction

SpecPrechecks == InitPrechecks /\ [][NextPrechecks]_vars

\* ------------------------------------------------- what the claims speak about
\* C and S of the reconciliation: the current names and the target's names
CurrentNames == original_current_resource_names
SnapshotNames == DOMAIN sr_hashval
\* process_names has returned its three lists
NamesComputed ==
    pc # "idle" /\ snapshot # NoSnapshot /\ error \notin {"BadOptionUsage", "UsageError"}
ToRestore == Range(names_to_restore)
ToAdd == Range(names_to_add)
ToLeave == Range(names_to_leave)
NoDuplicates(s) == \A i, j \in 1..Len(s) : s[i] = s[j] => i = j

\* C1: the three lists process_names returns are pairwise disjoint and their
\* union is C \cup S, for every C, S and accepted --only or --leave value.
C1_Partition ==
    NamesComputed =>
        /\ ToRestore \cup ToAdd \cup ToLeave = CurrentNames \cup SnapshotNames
        /\ ToRestore \cap ToAdd = {}
        /\ ToRestore \cap ToLeave = {}
        /\ ToAdd \cap ToLeave = {}
        /\ NoDuplicates(names_to_restore \o names_to_add \o names_to_leave)

C1_Witness ==
    /\ NamesComputed
    /\ args.only # None
    /\ names_to_restore # <<>>
    /\ names_to_add # <<>>
    /\ ToLeave \cap SnapshotNames # {}

\* C2: with neither option toRestore = C \cap S, toAdd = S \ C and
\* toLeave = C \ S; the plan restores each toRestore name through the current
\* resource object and each toAdd name through the snapshot's resource object,
\* both to the hash the snapshot recorded.
RestoresOf(n) == {i \in 1..Len(plan) : plan[i].kind = "RestoreResource" /\ plan[i].name = n}
C2_Defaults ==
    (NamesComputed /\ args.only = None /\ args.leave = None) =>
        /\ ToRestore = CurrentNames \cap SnapshotNames
        /\ ToAdd = SnapshotNames \ CurrentNames
        /\ ToLeave = CurrentNames \ SnapshotNames
        /\ pc \in {"running", "done"} =>
              /\ \A n \in ToRestore : \A i \in RestoresOf(n) : plan[i].obj = "current"
              /\ \A n \in ToAdd : \A i \in RestoresOf(n) : plan[i].obj = "snapshot"
              /\ \A n \in ToRestore \cup ToAdd :
                    /\ Cardinality(RestoresOf(n)) = 1
                    /\ \A i \in RestoresOf(n) : plan[i].hashval = sr_hashval[n]
        /\ pc = "done" => \A n \in ToRestore \cup ToAdd : content[n] = sr_hashval[n]

C2_Witness ==
    /\ pc = "done"
    /\ args.only = None /\ args.leave = None
    /\ names_to_restore # <<>>
    /\ names_to_add # <<>>
    /\ names_to_leave # <<>>
    /\ \E n \in ToRestore : map_of_hashes # NoHashes /\ content[n] = sr_hashval[n]

\* C3: with --only N, toRestore = (C \cap S) \cap N and every name of C \cap S
\* outside N is in toLeave.
C3_Only ==
    (NamesComputed /\ args.only # None) =>
        LET N == Range(split(args.only))
        IN /\ ToRestore = (CurrentNames \cap SnapshotNames) \cap N
           /\ (CurrentNames \cap SnapshotNames) \ N \subseteq ToLeave

\* C = {A,B,C}, S = {A,B}, --only A
C3_Witness ==
    /\ NamesComputed
    /\ CurrentNames = Names
    /\ SnapshotNames = {<<"A">>, <<"B">>}
    /\ args.only = <<"A">>
    /\ names_to_restore = <<<<"A">>>>
    /\ names_to_leave = <<<<"B">>, <<"C">>>>

\* C4: with --leave L, toRestore = (C \cap S) \ L and
\* toLeave = (C \ S) \cup ((C \cap S) \cap L); toAdd stays S \ C.
C4_Leave ==
    (NamesComputed /\ args.leave # None) =>
        LET L == Range(split(args.leave))
        IN /\ ToRestore = (CurrentNames \cap SnapshotNames) \ L
           /\ ToLeave = (CurrentNames \ SnapshotNames)
                           \cup ((CurrentNames \cap SnapshotNames) \cap L)
           /\ ToAdd = SnapshotNames \ CurrentNames

\* --leave names one resource that would have been restored and one that is
\* only in the snapshot
C4_Witness ==
    /\ NamesComputed
    /\ args.leave # None
    /\ Range(split(args.leave)) \cap CurrentNames \cap SnapshotNames # {}
    /\ Range(split(args.leave)) \cap (SnapshotNames \ CurrentNames) # {}
    /\ CurrentNames \ SnapshotNames # {}

\* the history entry restore_command would select for a command line
TargetsOf(a) == {i \in 1..Len(snapshot_history) : Matches(a, snapshot_history[i])}
TargetManifest(a) ==
    snapshot_files[snapshot_history[CHOOSE i \in TargetsOf(a) : \A j \in TargetsOf(a) : i <= j].hash]
\* the pieces of the --only / --leave values of a command line
OptionPieces(a) ==
    (IF a.only # None THEN Range(split(a.only)) ELSE {})
    \cup (IF a.leave # None THEN Range(split(a.leave)) ELSE {})
\* a command line that names something outside C \cup S
NamesUnknown(a) ==
    /\ TargetsOf(a) # {}
    /\ \E p \in OptionPieces(a) : p \notin resources_json \cup ManifestNames(TargetManifest(a))
Started == pc = "idle" /\ pc' # "idle"

\* C5: a restore whose --only or --leave value names something that is not in
\* C \cup S ends with a usage error before any action is constructed or run, and
\* leaves every resource and every metadata file as it was.
C5_UnknownNameFails ==
    [][(Started /\ NamesUnknown(args')) =>
          /\ pc' = "failed"
          /\ error' \in {"UsageError", "BadOptionUsage"}
          /\ plan' = <<>>
          /\ plan_pos' = 0
          /\ map_of_hashes' = NoHashes
          /\ UNCHANGED disk]_vars

C5_Witness ==
    /\ pc = "failed"
    /\ error = "UsageError"
    /\ args.leave # None
    /\ Range(split(args.leave)) \cap (CurrentNames \cap SnapshotNames) # {}
    /\ \E n \in CurrentNames : content[n] = 2

\* C6: a restore given both --only and --leave fails before restore_command is
\* entered: no snapshot is looked up, no list is computed, nothing changes.
C6_BothOptionsFail ==
    [][(Started /\ args'.only # None /\ args'.leave # None) =>
          /\ pc' = "failed"
          /\ error' = "BadOptionUsage"
          /\ snapshot' = NoSnapshot
          /\ sr_resources' = <<>>
          /\ names_to_restore' = <<>> /\ names_to_add' = <<>> /\ names_to_leave' = <<>>
          /\ plan' = <<>>
          /\ UNCHANGED disk]_vars

C6_Witness ==
    /\ pc = "failed"
    /\ error = "BadOptionUsage"
    /\ args.only # None /\ args.leave # None
    /\ args.only # args.leave

Drifted(n) == n \notin SnapshotNames \/ map_of_hashes[n] # sr_hashval[n]
DerivedEntries == {i \in 1..Len(snapshot_history) : snapshot_history[i].tag = NoTag}

\* C8: a completed restore without --no-new-snapshot that left a resource whose
\* fresh hash differs from the target's (or that the target did not have) has
\* stored a new snapshot with a hash other than the target's and appended exactly
\* one history entry, for that hash.
C8_DerivedSnapshotCreated ==
    (pc = "done" /\ ~args.no_new_snapshot /\ \E n \in ToLeave : Drifted(n)) =>
        /\ write_revised \notin {NoHash, snapshot.hash}
        /\ write_revised \in DOMAIN snapshot_files
        /\ Digest(snapshot_files[write_revised]) = write_revised
        /\ Cardinality(DerivedEntries) = 1
        /\ snapshot_history[Len(snapshot_history)] = [hash |-> write_revised, tag |-> NoTag]

C8_Witness ==
    /\ pc = "done"
    /\ ~args.no_new_snapshot
    /\ \E n \in ToLeave : n \in SnapshotNames /\ Drifted(n)
    /\ \A n \in ToLeave : n \in SnapshotNames
    /\ write_revised # snapshot.hash

\* C9: in the derived manifest every resource outside toLeave has the hash the
\* target recorded and every toLeave resource the hash taken during this restore;
\* map_of_hashes has entries for toLeave resources only.
C9_DerivedManifest ==
    /\ DOMAIN map_of_hashes \subseteq ToLeave
    /\ write_revised # NoHash =>
          LET m == snapshot_files[write_revised]
          IN /\ ManifestNames(m) = SnapshotNames \cup ToLeave
             /\ DOMAIN map_of_hashes = ToLeave
             /\ \A i \in 1..Len(m) :
                   IF m[i].name \in ToLeave
                     THEN /\ m[i].name \in DOMAIN map_of_hashes
                          /\ m[i].hash = map_of_hashes[m[i].name]
                          /\ m[i].hash = content[m[i].name]
                     ELSE m[i].hash = sr_hashval[m[i].name]

C9_Witness ==
    /\ pc = "done"
    /\ write_revised # NoHash
    /\ ToRestore # {}
    /\ ToAdd # {}
    /\ \E n \in ToLeave : n \in SnapshotNames /\ map_of_hashes[n] # sr_hashval[n]

\* C10: a restore after which neither the set of resource names nor any
\* resource hash differs from the target writes no manifest, appends no history
\* entry and makes no commit.
C10_NoSnapshotWhenUnchanged ==
    (/\ pc = "done"
     /\ CurrentNames = SnapshotNames
     /\ \A n \in SnapshotNames : content[n] = sr_hashval[n]
     /\ \A n \in DOMAIN map_of_hashes : map_of_hashes[n] = sr_hashval[n]) =>
        /\ write_revised = NoHash
        /\ DerivedEntries = {}
        /\ git_log = <<>>

\* the kinds of the actions in the plan
PlanKinds == {plan[i].kind : i \in 1..Len(plan)}
\* the names the plan appends to the snapshot's resource set
AddedToSnapshot == {plan[i].name : i \in {j \in 1..Len(plan) : plan[j].kind = "AddResourceToSnapshot"}}
PlanBuilt == pc \in {"running", "done"} \/ error = "RunError"

\* C11: with --no-new-snapshot a restore takes no resource snapshot,
\* appends no resource to the snapshot's resource set, writes no manifest and
\* appends no history entry.
C11_NoNewSnapshotAddsNothing ==
    (pc # "idle" /\ args.no_new_snapshot) =>
        /\ map_of_hashes = NoHashes
        /\ "TakeResourceSnapshot" \notin PlanKinds
        /\ "AddResourceToSnapshot" \notin PlanKinds
        /\ Range(sr_resources) = SnapshotNames
        /\ write_revised = NoHash
        /\ DOMAIN snapshot_files = {snapshot_history[1].hash}
        /\ DerivedEntries = {}

\* C12: whenever the current names differ from the target's names the plan
\* rewrites resources.json, stages it and commits it, also when no new snapshot
\* is produced; after the restore resources.json lists the snapshot's resources.
C12_ResourcesFileRewritten ==
    (PlanBuilt /\ CurrentNames # SnapshotNames) =>
        /\ "WriteRevisedResourceFile" \in PlanKinds
        /\ PlanKinds \cap {"GitAdd", "GitAddDeferred"} # {}
        /\ "GitCommit" \in PlanKinds
        /\ pc = "done" => /\ resources_json = Range(sr_resources)
                          /\ git_log # <<>>

\* the position of an action's class in the order restore_command builds a plan
Rank(kind) ==
    CASE kind = "RestoreResource" -> 1
      [] kind \in {"AddResourceToSnapshot", "TakeResourceSnapshot"} -> 2
      [] kind = "WriteRevisedSnapshotFile" -> 3
      [] kind = "AppendSnapshotHistory" -> 4
      [] kind = "WriteRevisedResourceFile" -> 5
      [] kind \in {"GitAdd", "GitAddDeferred"} -> 6
      [] kind = "GitCommit" -> 7
IsRestore(a) == a.kind = "RestoreResource"
IsLeave(a) == a.kind \in {"AddResourceToSnapshot", "TakeResourceSnapshot"}
NamesOf(acts) == [i \in 1..Len(acts) |-> acts[i].name]
\* what the run() of plan[i] leaves behind, for the actions whose effect shows
HasRun(i) ==
    CASE plan[i].kind = "AddResourceToSnapshot" -> plan[i].name \in Range(sr_resources)
      [] plan[i].kind = "TakeResourceSnapshot" -> plan[i].name \in DOMAIN map_of_hashes
      [] plan[i].kind = "WriteRevisedSnapshotFile" -> write_revised # NoHash
      [] plan[i].kind = "AppendSnapshotHistory" -> Len(snapshot_history) > 1
      [] plan[i].kind = "WriteRevisedResourceFile" -> resources_json = Range(sr_resources)
      [] plan[i].kind \in {"GitAdd", "GitAddDeferred"} -> git_staged # {} \/ git_log # <<>>
      [] plan[i].kind = "GitCommit" -> git_log # <<>>
      [] OTHER -> i <= plan_pos
Shows(i) == plan[i].kind \notin {"RestoreResource", "WriteRevisedResourceFile"}

\* C14: the plan holds the restores of toRestore (in name order), then those of
\* toAdd, then per toLeave name its add-to-snapshot and its snapshot, then the
\* manifest write, the history append, the resources-file write, the git add and
\* the commit last; the actions that have run are exactly the first plan_pos of
\* the plan, and a history entry a restore appended holds the hash of the
\* manifest written before it.
C14_PlanOrder ==
    /\ PlanBuilt =>
          /\ \A i, j \in 1..Len(plan) : i < j => Rank(plan[i].kind) <= Rank(plan[j].kind)
          /\ NamesOf(SelectSeq(plan, IsRestore)) = names_to_restore \o names_to_add
          /\ \A i, j \in 1..Len(names_to_restore) :
                i < j => NameIdx(names_to_restore[i]) < NameIdx(names_to_restore[j])
          /\ LET L == SelectSeq(plan, IsLeave)
             IN /\ Range(NamesOf(L)) \subseteq ToLeave
                /\ \A i, j \in 1..Len(L) : i < j =>
                      \/ NameIdx(L[i].name) < NameIdx(L[j].name)
                      \/ /\ L[i].name = L[j].name
                         /\ L[i].kind = "AddResourceToSnapshot"
                         /\ L[j].kind = "TakeResourceSnapshot"
          /\ "GitCommit" \in PlanKinds => plan[Len(plan)].kind = "GitCommit"
          /\ \A i \in 1..Len(plan) : Shows(i) => (HasRun(i) <=> i <= plan_pos)
    /\ \A i \in DerivedEntries :
          /\ snapshot_history[i].hash # NoHash
          /\ snapshot_history[i].hash = write_revised
          /\ snapshot_history[i].hash \in DOMAIN snapshot_files

\* a completed plan with every class of action in it
C14_Witness ==
    /\ pc = "done"
    /\ names_to_restore # <<>>
    /\ names_to_add # <<>>
    /\ {"AddResourceToSnapshot", "TakeResourceSnapshot", "WriteRevisedSnapshotFile",
        "AppendSnapshotHistory", "WriteRevisedResourceFile", "GitAddDeferred",
        "GitCommit"} \subseteq PlanKinds
    /\ Len(snapshot_history) = 2

\* C15: when the run() of an action fails, the actions before it have had their
\* effect and keep it, no later action has run, and the commit, which is the
\* plan's last action, has not been made.
C15_NoRollback ==
    error = "RunError" =>
        /\ pc = "failed"
        /\ plan_pos < Len(plan)
        /\ git_log = <<>>
        /\ \A i \in 1..Len(plan) :
              /\ (IsRestore(plan[i]) /\ i <= plan_pos) => content[plan[i].name] = plan[i].hashval
              /\ Shows(i) => (HasRun(i) <=> i <= plan_pos)
              /\ (plan[i].kind = "WriteRevisedResourceFile" /\ i <= plan_pos) => HasRun(i)
        /\ write_revised # NoHash => write_revised \in DOMAIN snapshot_files

\* the plan failed at its commit: the resources are restored, the derived
\* manifest and its history entry are written and staged, nothing is committed
C15_Witness ==
    /\ error = "RunError"
    /\ plan[plan_pos + 1].kind = "GitCommit"
    /\ names_to_restore # <<>>
    /\ Len(snapshot_history) = 2
    /\ git_staged # {}

\* the resources whose class refuses every restore
RestoreRefused == {n \in Names : \A h \in Hashes \cup {NoHash} : ~restore_prechecks(n, h)}

\* C16: restore_prechecks of a results subdirectory fails for every hash; a
\* restore with such a resource in toRestore or toAdd ends with
\* ConfigurationError while the plan is built: no action has run and nothing on
\* disk has changed.
C16_ResultsSubdirNotRestorable ==
    [][/\ \A n \in Names : KindOf(n) = "git-subdirectory-results" => n \in RestoreRefused
       /\ (/\ Started
           /\ args'.only = None \/ args'.leave = None
           /\ snapshot' # NoSnapshot
           /\ error' # "UsageError"
           /\ \E n \in Range(names_to_restore') \cup Range(names_to_add') :
                 KindOf(n) = "git-subdirectory-results") =>
              /\ pc' = "failed"
              /\ error' = "ConfigurationError"
              /\ plan_pos' = 0
              /\ \A i \in 1..Len(plan') : KindOf(plan'[i].name) # "git-subdirectory-results"
              /\ UNCHANGED disk]_vars

\* the plan got as far as the restore of a drifted git resource before the
\* results subdirectory stopped it
C16_Witness ==
    /\ pc = "failed"
    /\ error = "ConfigurationError"
    /\ \E n \in ToRestore \cup ToAdd : KindOf(n) = "git-subdirectory-results"
    /\ \E i \in 1..Len(plan) : IsRestore(plan[i]) /\ content[plan[i].name] # plan[i].hashval

\* ------------------------------------------------- claims about one resource object
\* a call of one of the two results operations, on any class of resource
ResultsOperation ==
    \/ \E files \in BOOLEAN : GitRepoResource_results_move_current_files(files)
    \/ GitRepoResource_add_results_file
    \/ GitRepoSubdirResource_results_move_current_files
    \/ GitRepoSubdirResource_add_results_file
    \/ S3Resource_results_move_current_files
    \/ S3Resource_add_results_file

\* C17: on a resource of any class whose role is not results,
\* results_move_current_files and add_results_file raise InternalError and leave
\* the repository, the bucket and the selection as they were.
C17_ResultsOperationsRefused ==
    [][(role # "results" /\ ResultsOperation) =>
          /\ last'.result = "InternalError"
          /\ UNCHANGED <<git_state, s3_state>>]_vars

\* C18: when snapshot() has returned the pair (c, r) and restore(r) has been
\* executed since, after any changes to the content, the next snapshot() returns
\* the comparison hash c again.
C18_RoundTrip ==
    (last.op = "snapshot" /\ taken # NoPair /\ restored = taken.rst) =>
        last.cmp = taken.cmp

\* a subdirectory resource whose content had changed before the restore, which
\* therefore made commits, and whose snapshot has been taken after it
C18_Witness ==
    /\ resource_class = "git-subdirectory"
    /\ last.op = "snapshot"
    /\ taken # NoPair
    /\ restored = taken.rst
    /\ head[cur_branch] # taken.rst
    /\ last.rst # taken.rst

\* a call of snapshot(), on any class of resource
Snapshot ==
    \/ GitRepoResource_snapshot
    \/ GitRepoSubdirResource_snapshot
    \/ GitRepoResultsSubdirResource_snapshot
    \/ S3Resource_snapshot

\* what a reader of the resource sees: the files of the working tree, or for an
\* S3 resource the selected snapshot's content, the bucket's when none is selected
VisibleContent ==
    IF resource_class = "s3" /\ current_snapshot # NoHash THEN current_snapshot ELSE tree

ResourceSync ==
    \/ GitRepoSubdirResource_push
    \/ GitRepoSubdirResource_pull
    \/ GitRepoResultsSubdirResource_push
    \/ GitRepoResultsSubdirResource_pull
    \/ S3Resource_push
    \/ S3Resource_pull

\* C20: push() and pull() of a git-subdirectory resource, in either role, and of
\* an S3 resource change nothing locally or remotely; for a subdirectory
\* resource, local commits reach the origin only in the workspace's push and the
\* origin's commits arrive only in the workspace's pull.
C20_SubdirAndS3SyncNoOp ==
    [][/\ ResourceSync => UNCHANGED <<git_state, s3_state>>
       /\ (resource_class \in SubdirClasses /\ origin_head' # origin_head
              /\ origin_head' \in known) => GitWorkspace_push
       /\ (resource_class \in SubdirClasses /\ origin_head \notin known
              /\ origin_head \in known') => GitWorkspace_pull_workspace]_vars

\* push() of a subdirectory resource has returned and the local commits are
\* still not at the origin
C20_Witness ==
    /\ resource_class \in SubdirClasses
    /\ last.op = "push"
    /\ last.result = "ok"
    /\ head[cur_branch] # origin_head

C13_WitnessPull ==
    /\ pc = "failed"
    /\ error = "ConfigurationError"
    /\ plan # <<>>
    /\ plan[1].kind = "PullResource"
    /\ plan_pos = 0

\* ------------------------------------------------- the snapshot metadata store

\* C21: remove_tag_from_snapshot(h, t) on a snapshot that has the tag t removes
\* exactly t: afterwards the snapshot's tags are the ones it had without t, its
\* message and timestamp are as before, and no other snapshot's metadata changed.
C21_RemovesExactlyTheTag ==
    [][(/\ reply'.op = "remove_tag_from_snapshot"
        /\ reply'.hash_val \in DOMAIN md_files
        /\ reply'.tag_val \in md_files[reply'.hash_val].tags)
       => md_files' = [md_files EXCEPT ![reply'.hash_val].tags = @ \ {reply'.tag_val}]]_vars

\* C22: remove_tag_from_snapshot(h, t) fails with InternalError when there is
\* no metadata record for h and when the record for h does not have the tag t;
\* in both cases every persisted metadata record is as it was.
C22_RemoveRefused ==
    [][(/\ reply'.op = "remove_tag_from_snapshot"
        /\ \/ lower(reply'.hash_val) \notin DOMAIN md_files
           \/ reply'.tag_val \notin md_files[lower(reply'.hash_val)].tags)
       => /\ reply'.result = "InternalError"
          /\ UNCHANGED <<md_files, manifest_files>>]_vars

\* the snapshots that have a tag
Owners(tag) == {f \in DOMAIN md_files : tag \in md_files[f].tags}

\* C23: whatever snapshots were taken and tags removed, no tag is in the
\* metadata of two snapshots: taking a snapshot with a tag that a snapshot with
\* another hash has fails with a configuration error and stores nothing, and
\* taking it with a tag the same hash has already changes nothing.
C23_TagUniqueness ==
    /\ [](\A t \in SnapshotTags : Cardinality(Owners(t)) <= 1)
    /\ [][(reply'.op = "take_snapshot" /\ Owners(reply'.tag_val) # {})
          => /\ UNCHANGED <<md_files, manifest_files>>
             /\ reply'.result = IF Owners(reply'.tag_val) = {reply'.hash_val}
                                THEN "ok" ELSE "ConfigurationError"]_vars

\* C24: once a manifest and its metadata are stored under a hash, the manifest
\* bytes never change and the metadata changes only by remove_tag_from_snapshot
\* taking tags away, also when the same hash is saved again with another
\* message or other tags.
C24_SnapshotsImmutable ==
    [][\A f \in DOMAIN md_files :
          /\ f \in DOMAIN md_files' /\ f \in DOMAIN manifest_files'
          /\ manifest_files'[f] = manifest_files[f]
          /\ \/ md_files'[f] = md_files[f]
             \/ /\ reply'.op = "remove_tag_from_snapshot"
                /\ md_files'[f].tags \subseteq md_files[f].tags
                /\ md_files'[f] = [md_files[f] EXCEPT !.tags = md_files'[f].tags]]_vars

\* C25: get_snapshot_by_tag(t) returns a snapshot that has t among its tags,
\* never one in which t is only a part of another tag, of the message or of the
\* hash, and it fails with a configuration error when no snapshot has the tag.
C25_LookupByTag ==
    reply.op = "get_snapshot_by_tag" =>
        IF Owners(reply.tag_val) = {}
        THEN reply.result = "ConfigurationError" /\ reply.returned = <<>>
        ELSE /\ reply.result = "ok"
             /\ reply.returned \in {<<md_files[f]>> : f \in Owners(reply.tag_val)}

\* C26: when two persisted snapshots have hashes with a common prefix,
\* get_snapshot_by_partial_hash for that prefix fails as ambiguous or gives the
\* same snapshot on every call made on the same stored snapshots, in whatever
\* order the directory is listed.
C26_PartialHashDeterministic ==
    [][(/\ reply.op = "get_snapshot_by_partial_hash"
        /\ reply'.op = "get_snapshot_by_partial_hash"
        /\ reply'.hash_val = reply.hash_val
        /\ UNCHANGED <<md_files, manifest_files>>)
       => reply' = reply]_vars

\* C27: get_snapshot_metadata(h) returns the record stored under h in lower
\* case whenever there is one and fails with ConfigurationError when there is
\* none; _get_snapshot_manifest_as_bytes(h) does the same for the manifest;
\* neither call changes anything that is stored.
C27_LookupByHash ==
    /\ [](reply.op = "get_snapshot_metadata" =>
            IF lower(reply.hash_val) \in DOMAIN md_files
            THEN /\ reply.result = "ok"
                 /\ reply.returned = <<md_files[lower(reply.hash_val)]>>
            ELSE reply.result = "ConfigurationError" /\ reply.returned = <<>>)
    /\ [](reply.op = "_get_snapshot_manifest_as_bytes" =>
            IF lower(reply.hash_val) \in DOMAIN manifest_files
            THEN /\ reply.result = "ok"
                 /\ reply.data = manifest_files[lower(reply.hash_val)]
            ELSE reply.result = "ConfigurationError")
    /\ [][reply'.op \in {"get_snapshot_metadata", "_get_snapshot_manifest_as_bytes"}
          => UNCHANGED <<md_files, manifest_files>>]_vars

\* a snapshot was found under a hash given with a capital digit
C27_Witness ==
    /\ reply.op = "get_snapshot_metadata"
    /\ reply.hash_val # lower(reply.hash_val)
    /\ reply.result = "ok"
    /\ reply.returned # <<>>
    /\ reply.returned[1].hashval = lower(reply.hash_val)

\* what list_snapshots returned is in the order asked for
InTimestampOrder(snapshots, reverse) ==
    \A i, j \in 1..Len(snapshots) :
        i < j => IF reverse THEN snapshots[i].timestamp >= snapshots[j].timestamp
                 ELSE snapshots[i].timestamp <= snapshots[j].timestamp

\* C28: list_snapshots returns every persisted metadata record exactly once,
\* by descending timestamp when reverse is set and ascending otherwise; with
\* max_count = n it returns the first min(n, total) records of that order.
C28_ListSnapshots ==
    reply.op = "list_snapshots" =>
        LET total == Cardinality(DOMAIN md_files)
            listed == {reply.returned[i].hashval : i \in 1..Len(reply.returned)}
        IN /\ reply.result = "ok"
           /\ \A i \in 1..Len(reply.returned) :
                /\ reply.returned[i].hashval \in DOMAIN md_files
                /\ reply.returned[i] = md_files[reply.returned[i].hashval]
           /\ Cardinality(listed) = Len(reply.returned)
           /\ InTimestampOrder(reply.returned, reply.reverse)
           /\ Len(reply.returned) =
                IF reply.max_count = {} \/ \A n \in reply.max_count : n >= total
                THEN total ELSE CHOOSE n \in reply.max_count : TRUE
           /\ \A f \in DOMAIN md_files \ listed :
                InTimestampOrder(reply.returned \o <<md_files[f]>>, reply.reverse)

\* of two snapshots taken at different times the earlier one alone was listed
C28_Witness ==
    /\ reply.op = "list_snapshots"
    /\ ~reply.reverse
    /\ reply.max_count = {1}
    /\ Len(reply.returned) = 1
    /\ \E f \in DOMAIN md_files : md_files[f].timestamp > reply.returned[1].timestamp

\* C30: get_next_snapshot_number returns 1 when there is no snapshot metadata
\* and 1 + the number of metadata records otherwise; the number grows by one
\* when a snapshot with a new hash is saved and stays when a hash is saved
\* again; two copies of the workspace that each take a snapshot before they
\* are synchronised obtain the same number.
C30_SnapshotNumber ==
    /\ [](reply.op = "get_next_snapshot_number" =>
            reply.number = IF DOMAIN md_files = {} THEN 1
                           ELSE 1 + Cardinality(DOMAIN md_files))
    /\ [][md_files' # md_files =>
            next_snapshot_number(DOMAIN md_files') =
                IF reply'.hash_val \in DOMAIN md_files
                THEN next_snapshot_number(DOMAIN md_files)
                ELSE next_snapshot_number(DOMAIN md_files) + 1]_vars
    /\ [](numbers[1] # 0 /\ numbers[2] # 0 => numbers[1] = numbers[2])

\* the two copies hold different snapshots that were given the same number
C30_Witness ==
    /\ numbers[1] > 1
    /\ numbers[2] = numbers[1]
    /\ copy_md_names # DOMAIN md_files
    /\ Cardinality(copy_md_names) = numbers[2]

\* ------------------------------------------------- the snapshot history
\* the entries a restore has appended: they carry no tag
AppendedEntries == {i \in 1..Len(snapshot_history) : snapshot_history[i].tag = NoTag}

C40_OptionsLeaveToAdd ==
    /\ NamesComputed =>
          /\ ToAdd = SnapshotNames \ CurrentNames
          /\ pc \in {"running", "done"} =>
                \A n \in SnapshotNames \ CurrentNames :
                   /\ Cardinality(RestoresOf(n)) = 1
                   /\ \A i \in RestoresOf(n) :
                         plan[i].obj = "snapshot" /\ plan[i].hashval = sr_hashval[n]
          /\ pc = "done" => \A n \in SnapshotNames \ CurrentNames : content[n] = sr_hashval[n]
    /\ error = "UsageError" =>
          ~(OptionPieces(args) \subseteq CurrentNames \cup SnapshotNames)

\* --only names one resource of S \ C and not the other; both were restored
C40_Witness ==
    /\ pc = "done"
    /\ args.only # None
    /\ \E n, m \in SnapshotNames \ CurrentNames :
          /\ n \in Range(split(args.only))
          /\ m \notin Range(split(args.only))
          /\ content[n] = sr_hashval[n] /\ content[m] = sr_hashval[m]

\* ------------------------------------------------- a target that is not in the history
\* no history entry carries the command line's hash (when a hash was given) or
\* its tag (otherwise)
NotInHistory(a) ==
    \A i \in 1..Len(snapshot_history) :
       IF a.is_hash THEN snapshot_history[i].hash # a.hash_arg
                    ELSE snapshot_history[i].tag # a.tag_arg

\* C33: a restore whose tag_or_hash matches no history entry fails with
\* ConfigurationError before any manifest or resource is read or changed: no
\* snapshot is selected, no names are read, no plan is built, and the files,
\* the repository and every resource stay as they were.
C33_UnknownTargetFails ==
    [][(pc = "idle" /\ pc' # "idle"
          /\ ~(args'.only # None /\ args'.leave # None)
          /\ NotInHistory(args'))
        => /\ pc' = "failed"
           /\ error' = "ConfigurationError"
           /\ snapshot' = NoSnapshot
           /\ sr_resources' = <<>>
           /\ original_current_resource_names' = {}
           /\ plan' = <<>>
           /\ UNCHANGED <<disk, res>>]_vars

\* `dws restore v9` in a workspace whose history has no tag v9
C33_Witness ==
    /\ pc = "failed"
    /\ error = "ConfigurationError"
    /\ snapshot = NoSnapshot
    /\ ~args.is_hash
    /\ args.tag_arg \in Tags \ {FirstTag}
    /\ NotInHistory(args)

\* ------------------------------------------------- a sequence of dws add
RegisteredNames == {resources_file[i].name : i \in 1..Len(resources_file)}
RegisteredUrls == {resources_file[i].url : i \in 1..Len(resources_file)}

\* no two entries of resources.json share a name and no two share a url
UniqueEntries ==
    \A i, j \in 1..Len(resources_file) :
       (resources_file[i].name = resources_file[j].name
          \/ resources_file[i].url = resources_file[j].url) => i = j

\* C32: after any sequence of dws add commands no two entries of resources.json
\* share a name or a url: a command whose url is already registered, or that
\* in batch mode names a resource already there, fails with
\* ConfigurationError before any action has run and leaves the file as it was.
C32_UniqueNamesAndUrls ==
    /\ [](UniqueEntries)
    /\ [][(added'.url \in RegisteredUrls
             \/ (added'.batch /\ added'.name \in RegisteredNames))
          => /\ added'.result = "ConfigurationError"
             /\ added'.ran = 0
             /\ resources_file' = resources_file]_more

\* the entries themselves stay unique whatever the commands were
EntriesStayUnique == UniqueEntries

\* ------------------------------------------------- the order of a pull
PlanIndexes(kind) == {i \in 1..Len(plan) : plan[i].kind = kind}

\* C39: a pull_command in a workspace whose metadata repository has uncommitted
\* changes fails with ConfigurationError before anything has run; when the
\* workspace's `git pull` runs, every resource of the workspace has been pulled
\* before it, and the resources only the remote resources.json declares are
\* added after it.
C39_PullOrder ==
    /\ [][(pc = "idle" /\ ~(pc' = "failed" /\ error' = "ConfigurationError"
                             /\ plan_pos' = 0 /\ disk' = disk))
            => \A only_workspace \in BOOLEAN, remote \in SUBSET Names, h \in Hashes :
               \A dirty \in SUBSET resources_json, refused \in SUBSET (remote \ resources_json) :
                  ~pull_command(only_workspace, remote, h, dirty, TRUE, refused)]_vars
    /\ [][(Running("PullWorkspace") /\ plan_pos' = plan_pos + 1)
            => /\ \A i \in PlanIndexes("PullResource") :
                     i <= plan_pos /\ content[plan[i].name] = plan[i].hashval
               /\ Len(plan) > 1 =>
                     {plan[i].name : i \in PlanIndexes("PullResource")} = resources_json
               /\ \A i \in PlanIndexes("AddRemoteResource") :
                     i > plan_pos + 1 /\ plan[i].name \notin resources_json
               /\ resources_json' \ resources_json
                     = {plan[i].name : i \in PlanIndexes("AddRemoteResource")}]_vars

\* a pull that pulled a resource, then the workspace, then added a resource of
\* the remote
C39_Witness ==
    /\ pc = "done"
    /\ PlanIndexes("PullResource") # {}
    /\ PlanIndexes("PullWorkspace") # {}
    /\ PlanIndexes("AddRemoteResource") # {}
    /\ \A i \in PlanIndexes("AddRemoteResource") : plan[i].name \in resources_json

\* the same refusal by the backend's pull_workspace (backends/git.py 192-196),
\* for the repository followed as one object
DirtyWorkspacePullRefused ==
    [][(last'.op = "workspace_pull" /\ last' # last /\ is_git_dirty)
         => last'.result = "ConfigurationError" /\ UNCHANGED git_state]_vars

\* ------------------------------------------------- prechecks before operations
\* C38: within one command restore(), push() and pull() are called on a
\* resource object only after the precheck of the same kind has returned on
\* that very object and every constructor of the plan has returned; no
\* operation ever reads uses_git_fat or python2_exe while it is undefined; and
\* the push of a read-only resource, whose precheck set neither attribute,
\* reads none and contacts no remote.
C38_PrechecksBeforeOperations ==
    /\ [](outcome # "AttributeError")
    /\ [][actions_run' # actions_run =>
            /\ outcome = "running"
            /\ objects[built[actions_run + 1].r].prechecked = built[actions_run + 1].kind]_vars
    /\ [](\A r \in DOMAIN objects :
             /\ (objects[r].read_only /\ objects[r].prechecked = "PushResource")
                   => objects[r].uses_git_fat = Undefined
             /\ objects[r].read_only => ~objects[r].pushed)

\* a command pushed a read-only resource, whose attributes are still
\* undefined, and a resource that uses git-fat
C38_Witness ==
    /\ outcome = "done"
    /\ \E r, q \in DOMAIN objects :
          /\ objects[r].read_only
          /\ objects[r].prechecked = "PushResource"
          /\ objects[r].uses_git_fat = Undefined
          /\ objects[q].pushed
          /\ objects[q].fat_calls = 1

\* ------------------------------------------------- the S3Resource and its snapshot
\* C35: whenever an S3Resource has current_snapshot set, snapshot_fs is set as
\* well, so that the assertions of does_subpath_exist and
\* validate_subpath_exists never fail; this includes the object constructed
\* over a scratch directory that already holds current_snapshot.txt, which
\* comes out with that snapshot selected and its snapshot_fs loaded.
C35_SnapshotFsWhenSelected ==
    /\ []((resource_class = "s3" /\ current_snapshot # NoHash) => snapshot_fs # NoHash)
    /\ [](resource_class = "s3" => last.result # "AssertionError")
    /\ [][(last'.op = "__init__" /\ current_snapshot_file # NoHash)
            => /\ last'.result = "ok"
               /\ current_snapshot' = current_snapshot_file
               /\ snapshot_fs' = current_snapshot_file]_vars

\* the part that holds: an object that exists never has a snapshot selected
\* without its snapshot_fs
SnapshotFsOfLiveObject ==
    /\ (resource_class = "s3" /\ current_snapshot # NoHash) => snapshot_fs # NoHash
    /\ resource_class = "s3" => last.result # "AssertionError"

\* C36: while an S3Resource has a snapshot selected, upload_file and
\* delete_file raise NotSupportedError and leave the bucket as it is; no
\* operation on the object resets current_snapshot to None, and snapshot()
\* returns the selected hash, whatever the bucket holds by then, without
\* writing anything.
C36_SelectedSnapshotFreezes ==
    [][(resource_class = "s3" /\ current_snapshot # NoHash /\ last'.op # "__init__")
        => /\ current_snapshot' # NoHash
           /\ last'.op \in {"upload_file", "delete_file"}
                 => last'.result = "NotSupportedError" /\ tree' = tree
           /\ last'.op = "snapshot"
                 => /\ last'.result = "ok"
                    /\ last'.cmp = current_snapshot
                    /\ last'.rst = current_snapshot
                    /\ UNCHANGED <<tree, s3_state>>]_vars

\* a delete_file was refused on an object whose selected snapshot is older than
\* the bucket's content
C36_Witness ==
    /\ resource_class = "s3"
    /\ current_snapshot # NoHash
    /\ current_snapshot # tree
    /\ last.op = "delete_file"
    /\ last.result = "NotSupportedError"

\* C37: after every snapshot() or restore() that has returned,
\* current_snapshot.txt names the snapshot the object has selected, which is
\* what an S3Resource constructed later reads to select its snapshot.
C37_SelectionPersisted ==
    [][(resource_class = "s3" /\ last'.op \in {"snapshot", "restore"}
          /\ last'.result = "ok")
         => current_snapshot_file' = current_snapshot']_vars

(***************************************************************************)
(* Moving the current files of a results resource into a snapshot          *)
(* directory.  git_resource.py (113-129, 440-456) hands the work to        *)
(* move_current_files_local_fs, whose body is not among the sources: the   *)
(* walk below is the one tests/test_move_results.py pins down, an os.walk  *)
(* of the resource directory from the top that does not descend into a     *)
(* directory matching exclude_dirs_re.  A path is the sequence of its      *)
(* components, relative to the resource directory.                         *)
(***************************************************************************)
MaxMoves == 2

\* the files test_move_results.py creates
CurrentFiles == {<<"results.csv">>, <<"test.log">>, <<"test2.log">>,
                 <<"subdir", "output.csv">>}

\* last components that end in -dd:dd, and components that hold a dash
Stamped == {"jfischer-11:45", "jfischer-11:50", "jfischer-11:55"}
Dashed == {"2018-09"} \cup Stamped

\* the snapshot directories a call may be given
DestRoots == {<<"2018-09", "19", s>> : s \in Stamped}

\* the sets of files a call may be told to leave
ExcludeFiles == {{}, {<<"results.csv">>}}

\* what never matches: used to show the expression matters
exclude_dirs_re_never(p) == FALSE

\* EXCLUDE_DIRS_RE.match(p) for ^.+\-.+\/.+\/.+\-\d\d\:\d\d$ : a dash before the
\* last two components, and a last component ending in -dd:dd
exclude_dirs_re(p) ==
    /\ Len(p) >= 3
    /\ p[Len(p)] \in Stamped
    /\ \E i \in 1..(Len(p) - 2) : p[i] \in Dashed


\* the files and the directories os.walk lists in directory d
filenames(fs, d) ==
    {p \in fs : Len(p) = Len(d) + 1 /\ SubSeq(p, 1, Len(d)) = d}
dirnames(fs, d) ==
    {SubSeq(p, 1, Len(d) + 1) : p \in {q \in fs : /\ Len(q) > Len(d) + 1
                                                  /\ SubSeq(q, 1, Len(d)) = d}}

\* a directory listing comes in an order the file system chooses
Listings(S) ==
    {s \in [1..Cardinality(S) -> S] : \A i, j \in 1..Cardinality(S) : s[i] = s[j] => i = j}

\* the walk from directory d, top down: the files of d that are not excluded,
\* then the directories of d that do not match exclude_dirs_re, one after
\* another; the result is every list of files the walk may come to move
RECURSIVE walk(_, _, _), walk_dirs(_, _, _)
walk(fs, d, exclude_files) ==
    {here \o below :
        here \in Listings({p \in filenames(fs, d) : p \notin exclude_files}),
        below \in walk_dirs(fs, {sd \in dirnames(fs, d) : ~exclude_dirs_re(sd)},
                            exclude_files)}
walk_dirs(fs, dirs, exclude_files) ==
    IF dirs = {} THEN {<<>>}
    ELSE UNION {{first \o rest : first \in walk(fs, sd, exclude_files),
                                 rest \in walk_dirs(fs, dirs \ {sd}, exclude_files)}
                : sd \in dirs}

\* a file is written in the resource directory (open(..., 'w') in the test):
\* it is new, whether or not the path held a file before
makefile(p) ==
    /\ results_files' = [q \in DOMAIN results_files \cup {p} |->
                            IF q = p THEN move_calls ELSE results_files[q]]
    /\ UNCHANGED <<move_calls, move_reply>>
    /\ UNCHANGED <<disk, cmd, res, adds, attrs, writes>>
    /\ UNCHANGED <<md_files, manifest_files, reply, copy_md_names, numbers>>

\* move_current_files_local_fs(name, base_dir, rel_dest_root, exclude_files,
\* exclude_dirs_re): every file the walk meets goes to rel_dest_root/<its
\* path>, and the list of (source, destination) pairs is returned
move_current_files_local_fs(rel_dest_root, exclude_files) ==
    /\ move_calls < MaxMoves
    /\ \A p \in DOMAIN results_files : ~startswith(p, rel_dest_root)
    /\ \E moved \in walk(DOMAIN results_files, <<>>, exclude_files) :
        \E srcs \in {{moved[i] : i \in 1..Len(moved)}} :
            /\ results_files' =
                    [q \in (DOMAIN results_files \ srcs) \cup {rel_dest_root \o p : p \in srcs} |->
                        IF q \in DOMAIN results_files \ srcs THEN results_files[q]
                        ELSE results_files[SubSeq(q, Len(rel_dest_root) + 1, Len(q))]]
            /\ move_reply' = [rel_dest_root |-> rel_dest_root,
                              exclude_files |-> exclude_files,
                              moved_files |-> [i \in 1..Len(moved) |->
                                                <<moved[i], rel_dest_root \o moved[i]>>]]
    /\ move_calls' = move_calls + 1
    /\ UNCHANGED <<disk, cmd, res, adds, attrs, writes>>
    /\ UNCHANGED <<md_files, manifest_files, reply, copy_md_names, numbers>>

InitMoves ==
    /\ InitWorkspace(Names, Names)
    /\ InitCommand
    /\ InitResource("git", "results", FALSE)
    /\ NoSnapshots
    /\ NoAdds
    /\ NoObjects
    /\ NoWriters
    /\ results_files = <<>>
    /\ move_calls = 0
    /\ move_reply = NoMove

NextMoves ==
    \/ \E p \in CurrentFiles : makefile(p)
    \/ \E rel_dest_root \in DestRoots, exclude_files \in ExcludeFiles :
            move_current_files_local_fs(rel_dest_root, exclude_files)

SpecMoves == InitMoves /\ [][NextMoves]_vars

\* the files of fs that lie below a directory matching exclude_dirs_re
InExcludedDir(fs) ==
    {p \in fs : \E k \in 1..(Len(p) - 1) : exclude_dirs_re(SubSeq(p, 1, k))}

MaxAdds == 2
Procs == {1, 2}

\* the parameters of a resource, by the characters of their JSON text: those of
\* one resource are longer than those of the other
ParamsToAdd == {<<"a">>, <<"b", "b">>}

\* json.dump of a list of resource parameters
RECURSIVE dump_items(_)
dump_items(l) ==
    IF l = <<>> THEN <<>>
    ELSE (IF Len(l) > 1 THEN dump_items(SubSeq(l, 1, Len(l) - 1)) \o <<",">> ELSE <<>>)
         \o <<"{">> \o l[Len(l)] \o <<"}">>
json_dump(l) == <<"[">> \o dump_items(l) \o <<"]">>

\* write(data) at position 0 of a file that holds text: the text beyond the
\* data stays
write_at_start(text, data) ==
    IF Len(text) > Len(data) THEN data \o SubSeq(text, Len(data) + 1, Len(text))
    ELSE data

\* every other process with the file open has now seen it touched
Disturbed(p) ==
    [q \in Procs |->
        IF q # p /\ writers[q].stage = "open"
        THEN [resource_params |-> writers[q].resource_params, stage |-> "open",
              interfered |-> TRUE]
        ELSE writers[q]]

\* _add_params_for_resource up to the open() of _save_json_to_file: the
\* parameters join the process's own list and the file is emptied
add_params_for_resource(p, params) ==
    /\ writers[p].stage = "idle"
    /\ Len(writers[p].resource_params) <= MaxAdds
    /\ writers' = [Disturbed(p) EXCEPT ![p] =
                        [resource_params |-> Append(writers[p].resource_params, params),
                         stage |-> "open",
                         interfered |-> \E q \in Procs \ {p} : writers[q].stage = "open"]]
    /\ json_file' = <<>>
    /\ UNCHANGED last_write
    /\ UNCHANGED <<disk, cmd, res, adds, attrs, moves>>
    /\ UNCHANGED <<md_files, manifest_files, reply, copy_md_names, numbers>>

\* the rest of _save_json_to_file: json.dump and the end of the with-block
save_json_to_file(p) ==
    /\ writers[p].stage = "open"
    /\ json_file' = write_at_start(json_file, json_dump(writers[p].resource_params))
    /\ writers' = [Disturbed(p) EXCEPT ![p] =
                        [resource_params |-> writers[p].resource_params,
                         stage |-> "idle",
                         interfered |-> FALSE]]
    /\ last_write' = [by |-> p, clean |-> ~writers[p].interfered]
    /\ UNCHANGED <<disk, cmd, res, adds, attrs, moves>>
    /\ UNCHANGED <<md_files, manifest_files, reply, copy_md_names, numbers>>

\* Workspace.__init__ in both processes: each has read the same resources.json
InitWriters ==
    /\ InitWorkspace(Names, Names)
    /\ InitCommand
    /\ InitResource("git", "source-data", FALSE)
    /\ NoSnapshots
    /\ NoAdds
    /\ NoObjects
    /\ NoMoves
    /\ \E loaded \in {<<>>, << <<"r">> >>} :
        /\ json_file = json_dump(loaded)
        /\ writers = [p \in Procs |-> [resource_params |-> loaded, stage |-> "idle",
                                       interfered |-> FALSE]]
    /\ last_write = NoWrite

NextWriters ==
    \/ \E p \in Procs, params \in ParamsToAdd : add_params_for_resource(p, params)
    \/ \E p \in Procs : save_json_to_file(p)

SpecWriters == InitWriters /\ [][NextWriters]_vars

\* no process is between open() and the end of its with-block
NoSaveUnderWay == \A p \in Procs : writers[p].stage = "idle"

\* C31: once two processes that loaded the same workspace have both written
\* resources.json, the file holds exactly what the later writer wrote.
C31_LastWriterWins ==
    (NoSaveUnderWay /\ last_write.by # 0)
        => json_file = json_dump(writers[last_write.by].resource_params)

\* a save that no other process's open() or write fell into leaves exactly its
\* own list in the file, without the other process's additions
UndisturbedWriterWins ==
    (NoSaveUnderWay /\ last_write.by # 0 /\ last_write.clean)
        => json_file = json_dump(writers[last_write.by].resource_params)

\* both processes have added a resource, one save after the other: the file
\* holds the later writer's list and the earlier addition is gone
SerialWritesReached ==
    /\ NoSaveUnderWay
    /\ last_write = [by |-> 2, clean |-> TRUE]
    /\ \A p \in Procs : Len(writers[p].resource_params) = 1
    /\ writers[1].resource_params # writers[2].resource_params
    /\ json_file = json_dump(writers[2].resource_params)

\* the round trip of C18 for the resources whose state is the repository's,
\* which every newly made resource object finds again
RoundTripInRepository ==
    (resource_class # "s3" /\ last.op = "snapshot" /\ taken # NoPair /\ restored = taken.rst) =>
        last.cmp = taken.cmp
====
